---- MODULE Spec2Model ----
(***************************************************************************)
(* Threshold EdDSA (tss-eddsa): the coordinator (CoordinatorService), the  *)
(* party agents (MPCService over MPCClient) and the cryptographic core     *)
(* they call (the native module multi-party-eddsa-node).                   *)
(*                                                                         *)
(* Scalars are the integers modulo the group order Q.  A point is kept as  *)
(* its discrete logarithm to the base point G, so G is 1, point addition   *)
(* is addition modulo Q and scalar multiplication is multiplication        *)
(* modulo Q.  Hashes are fixed functions of their inputs.  JavaScript      *)
(* arrays are sequences: the element at JavaScript index i is s[i + 1].    *)
(***************************************************************************)
EXTENDS Integers, Sequences, FiniteSets, TLC

\* ------------------------------------------------------------------ bounds
\* The largest number of parties of a key generation session.
MaxParties == 3
\* The number of seeds a party's random number generator can be started with.
MaxSeed == 2
\* The number of departures from the honest script (a call out of the
\* protocol order, an altered value) in one run.
MaxDeviations == 1
\* The number of signing sessions driven against one coordinator.
MaxRuns == 2
\* The largest number of registered parties whose protocol indices are sorted.
MaxRegistered == 11
\* The largest number of bytes of a message handed to the message conversion.
MaxMessageLen == 2

\* ------------------------------------------------------- values and helpers
\* The order of the base-point group (the model's stand-in for the Ed25519
\* group order l): a prime above every VSS index.
Q == 7

\* A value that may be absent (undefined or null in the source) is a sequence
\* of at most one element; an absent scalar in an array of scalars is -1.
None == << >>
Some(v) == <<v>>
IsSet(o) == o # << >>
Val(o) == o[1]
UndefinedBytes == -1
NoError == "none"

\* The party identifiers, in the order localeCompare gives them.
AllIds ==
  <<"p0", "p1", "p2", "p3", "p4", "p5", "p6", "p7", "p8", "p9", "pa", "pb", "pc">>
PartyIds == {AllIds[i] : i \in 1..MaxParties}
IdRank(pid) == CHOOSE i \in 1..Len(AllIds) : AllIds[i] = pid

\* The element of a JavaScript array at index i: undefined outside the array.
At(arr, i) == IF i + 1 \in DOMAIN arr THEN arr[i + 1] ELSE UndefinedBytes

\* Array.prototype.indexOf: the first index holding x, or -1.
IndexOf(arr, x) ==
  IF \E i \in DOMAIN arr : arr[i] = x
  THEN (CHOOSE i \in DOMAIN arr : arr[i] = x /\ \A j \in 1..(i - 1) : arr[j] # x) - 1
  ELSE -1

\* Array.prototype.sort((a, b) => a.partyId.localeCompare(b.partyId)): stable,
\* each element is put behind the elements whose partyId is not greater.
InsertByPartyId(sorted, x) ==
  LET k == Cardinality({i \in DOMAIN sorted : IdRank(sorted[i].partyId) <= IdRank(x.partyId)})
  IN  SubSeq(sorted, 1, k) \o <<x>> \o SubSeq(sorted, k + 1, Len(sorted))
RECURSIVE SortByPartyId(_)
SortByPartyId(arr) ==
  IF arr = << >> THEN << >>
  ELSE InsertByPartyId(SortByPartyId(SubSeq(arr, 1, Len(arr) - 1)), arr[Len(arr)])


\* ------------------------------------------------------ cryptographic core
\* Scalar and point arithmetic of the base-point group.
ScalarAdd(a, b) == (a + b) % Q
ScalarMul(a, b) == (a * b) % Q
ScalarSub(a, b) == (a + Q - (b % Q)) % Q
ScalarInv(a) == CHOOSE y \in 1..(Q - 1) : (a * y) % Q = 1
BasePointMul(a) == a % Q
PointAdd(P1, P2) == (P1 + P2) % Q
PointMul(k, P) == (k * P) % Q

RECURSIVE SumMod(_)
SumMod(s) == IF s = << >> THEN 0 ELSE (Head(s) + SumMod(Tail(s))) % Q

\* SHA-512 of a byte string, reduced to a scalar.
RECURSIVE HashBytes(_)
HashBytes(bytes) ==
  IF bytes = << >> THEN 1
  ELSE (3 * HashBytes(SubSeq(bytes, 1, Len(bytes) - 1)) + bytes[Len(bytes)] + 2) % Q

\* RFC 8032 5.1.5: the secret scalar a and the nonce prefix of a 32-byte seed.
ExpandA(seed) == 1 + ((2 * seed) % (Q - 1))
ExpandPrefix(seed) == (5 * seed + 2) % Q
\* The 32 random bytes of a commitment's blind factor.
DrawBlind(seed) == (seed + 4) % Q
\* The k-th random coefficient (k >= 1) of a VSS polynomial.
DrawCoefficient(seed, k) == (seed * k + k + 2) % Q

\* commit(p, b) = SHA-256(encode(p) || b): equal exactly when both inputs are.
Commit(point, blind) == <<point, blind>>

\* compute_nonce_share(prefix, m) = SHA-512(prefix || m) mod l.
ComputeNonceShare(prefix, message) == (2 * prefix + HashBytes(message) + 1) % Q
\* compute_challenge(R, Y, m) = SHA-512(encode(R) || encode(Y) || m) mod l.
ComputeChallenge(R, Y, message) == (3 * R + 5 * Y + HashBytes(message) + 1) % Q

\* f(x) = sum of coeffs[k + 1] * x^k.
RECURSIVE PolyEval(_, _)
PolyEval(coeffs, x) ==
  IF coeffs = << >> THEN 0
  ELSE (Head(coeffs) + x * PolyEval(Tail(coeffs), x)) % Q

\* Feldman VSS of secret with a polynomial of the given degree, shares at the
\* 1-based indices given, in their order.
VssShare(secret, degree, shareCount, indices, seed) ==
  LET coeffs == [k \in 1..(degree + 1) |->
                   IF k = 1 THEN secret % Q ELSE DrawCoefficient(seed, k - 1)]
  IN  [vss |-> [threshold |-> degree, share_count |-> shareCount,
                commitments |-> [k \in 1..(degree + 1) |-> BasePointMul(coeffs[k])]],
       secret_shares |-> [i \in DOMAIN indices |-> PolyEval(coeffs, indices[i])]]

\* verify_share: share * G = sum of index^k * commit_vec[k].
ValidateShare(vss, share, index) ==
  share \in 0..(Q - 1) /\ BasePointMul(share) = PolyEval(vss.commitments, index)

\* The Lagrange coefficient at 0 of index i within the 1-based index set X.
RECURSIVE ProdMod(_)
ProdMod(s) == IF s = << >> THEN 1 ELSE (Head(s) * ProdMod(Tail(s))) % Q
ComputeLagrangeCoeff(i, X) ==
  ProdMod([p \in DOMAIN X |->
             IF X[p] = i THEN 1
             ELSE ScalarMul(X[p] % Q, ScalarInv(ScalarSub(X[p], i)))])

\* The first position of a sequence of booleans that is FALSE (0-based), or -1.
FirstFailing(oks) ==
  IF \E j \in DOMAIN oks : ~oks[j]
  THEN (CHOOSE j \in DOMAIN oks : ~oks[j] /\ \A h \in 1..(j - 1) : oks[h]) - 1
  ELSE -1

Ok(value) == [err |-> NoError, offender |-> -1, value |-> Some(value)]
Fail(kind, who) == [err |-> kind, offender |-> who, value |-> None]

\* The long-lived key of a handle: phase1_create draws the seed.
LongLivedKey(seed) ==
  [seed |-> seed, a |-> ExpandA(seed), prefix |-> ExpandPrefix(seed),
   y |-> BasePointMul(ExpandA(seed))]

\* phase1_broadcast: the commitment to y and its blind factor.
Phase1Broadcast(key) ==
  [commitment |-> Commit(key.y, DrawBlind(key.seed)), blind_factor |-> DrawBlind(key.seed)]

\* phase1_verify_com_phase2_distribute: every commitment must open to its
\* public key; then the key's secret is shared.
Phase1VerifyComPhase2Distribute(key, degree, shareCount, blinds, points, coms, parties) ==
  IF Len(blinds) # shareCount \/ Len(points) # shareCount \/ Len(coms) # shareCount
     \/ Len(parties) # shareCount
  THEN Fail("InvalidInput", -1)
  ELSE LET oks == [j \in 1..shareCount |-> coms[j] = Commit(points[j], blinds[j])]
       IN  IF FirstFailing(oks) # -1
           THEN Fail("ProtocolFailure", FirstFailing(oks))
           ELSE Ok(VssShare(key.a, degree, shareCount, parties, key.seed))

\* phase2_verify_vss_construct_keypair: every received share must match its
\* distributor's commitment vector; then x_i and Y are the sums.
Phase2VerifyVssConstructKeypair(key, degree, shareCount, points, shares, vsss, index) ==
  IF Len(points) # shareCount \/ Len(shares) # shareCount \/ Len(vsss) # shareCount
  THEN Fail("InvalidInput", -1)
  ELSE LET oks == [j \in 1..shareCount |->
                     /\ Len(vsss[j].commitments) = degree + 1
                     /\ ValidateShare(vsss[j], shares[j], index)]
       IN  IF FirstFailing(oks) # -1
           THEN Fail("ProtocolFailure", FirstFailing(oks))
           ELSE Ok([y |-> SumMod(points), xI |-> SumMod(shares), prefix |-> Some(key.prefix)])

\* ephemeral_key_create: the nonce scalar of (prefix, message) and its point.
EphemeralKey(key, message) ==
  [seed |-> key.seed + HashBytes(message),
   r |-> ComputeNonceShare(key.prefix, message),
   R |-> BasePointMul(ComputeNonceShare(key.prefix, message))]

EphemeralPhase1Broadcast(eph) ==
  [commitment |-> Commit(eph.R, DrawBlind(eph.seed)), blind_factor |-> DrawBlind(eph.seed)]

EphemeralPhase1VerifyComPhase2Distribute(eph, degree, shareCount, blinds, points, coms, parties) ==
  IF Len(blinds) # shareCount \/ Len(points) # shareCount \/ Len(coms) # shareCount
     \/ Len(parties) # shareCount
  THEN Fail("InvalidInput", -1)
  ELSE LET oks == [j \in 1..shareCount |-> coms[j] = Commit(points[j], blinds[j])]
       IN  IF FirstFailing(oks) # -1
           THEN Fail("ProtocolFailure", FirstFailing(oks))
           ELSE Ok(VssShare(eph.r, degree, shareCount, parties, eph.seed))

EphemeralPhase2VerifyVssConstructKeypair(eph, degree, shareCount, points, shares, vsss, index) ==
  IF Len(points) # shareCount \/ Len(shares) # shareCount \/ Len(vsss) # shareCount
  THEN Fail("InvalidInput", -1)
  ELSE LET oks == [j \in 1..shareCount |->
                     /\ Len(vsss[j].commitments) = degree + 1
                     /\ ValidateShare(vsss[j], shares[j], index)]
       IN  IF FirstFailing(oks) # -1
           THEN Fail("ProtocolFailure", FirstFailing(oks))
           ELSE Ok([r |-> SumMod(points), rI |-> SumMod(shares)])

\* compute_local_sig: gamma_i = rho_i + k * x_i with k the Ed25519 challenge.
\* The call gets neither the signer's index nor the signing subset, so the
\* Lagrange weights are applied where the subset is known, in GenerateSignature.
ComputeLocalSig(message, ephSharedKey, sharedKey) ==
  LET k == ComputeChallenge(ephSharedKey.r, sharedKey.y, message)
  IN  [gammaI |-> ScalarAdd(ephSharedKey.rI, ScalarMul(k, sharedKey.xI)), k |-> k]

\* verify_local_sigs: gamma_i * G must be the evaluation at i + 1, in the
\* exponent, of the summed commitment vectors (ephemeral + k * key generation).
VerifyLocalSigs(localSigs, signingParties, keyGenVss, ephVss) ==
  IF localSigs = << >> \/ keyGenVss = << >> \/ ephVss = << >>
     \/ Len(localSigs) # Len(signingParties)
     \/ \E j \in DOMAIN keyGenVss :
          Len(keyGenVss[j].commitments) # Len(ephVss[1].commitments)
     \/ \E h \in DOMAIN ephVss :
          Len(ephVss[h].commitments) # Len(ephVss[1].commitments)
  THEN Fail("InvalidInput", -1)
  ELSE LET k == localSigs[1].k
           width == Len(ephVss[1].commitments)
           comm == [c \in 1..width |->
                      PointAdd(SumMod([j \in DOMAIN ephVss |-> ephVss[j].commitments[c]]),
                               PointMul(k, SumMod([j \in DOMAIN keyGenVss |->
                                                     keyGenVss[j].commitments[c]])))]
           vssSum == [threshold |-> ephVss[1].threshold,
                      share_count |-> ephVss[1].share_count, commitments |-> comm]
           oks == [p \in DOMAIN localSigs |->
                     ValidateShare(vssSum, localSigs[p].gammaI, signingParties[p] + 1)]
       IN  IF FirstFailing(oks) # -1
           THEN Fail("ProtocolFailure", signingParties[FirstFailing(oks) + 1])
           ELSE Ok(vssSum)

\* generate_signature: s is the Lagrange combination at 0 of the local
\* signatures over the signing subset; the signature is (R, s).
GenerateSignature(vssSum, localSigs, signingParties, aggregateR) ==
  LET X == [p \in DOMAIN signingParties |-> signingParties[p] + 1]
  IN  [r |-> aggregateR,
       s |-> SumMod([p \in DOMAIN localSigs |->
                       ScalarMul(ComputeLagrangeCoeff(X[p], X), localSigs[p].gammaI)])]

\* verify_ed25519: s * G = R + SHA-512(R || Y || m) * Y.
VerifySignature(signature, message, Y) ==
  BasePointMul(signature.s)
    = PointAdd(signature.r, PointMul(ComputeChallenge(signature.r, Y, message), Y))


\* ------------------------------------------------- validation, serialization
NoErr(res) == res.err = NoError

\* validateThreshold without its comparison with totalParties.
validateThreshold_lowerBoundOnly(threshold, totalParties) ==
  IF threshold < 2 THEN "ValidationError" ELSE NoError

\* validateSigningParties without its comparison with threshold.
validateSigningParties_upperBoundOnly(signingPartiesCount, threshold, totalParties) ==
  IF signingPartiesCount > totalParties THEN "ValidationError" ELSE NoError

\* utils/validation: the kind of error thrown, or NoError.
validateThreshold(threshold, totalParties) ==
  IF threshold < 2 THEN "ValidationError"
  ELSE IF threshold > totalParties THEN "ValidationError"
  ELSE NoError

validateSigningParties(signingPartiesCount, threshold, totalParties) ==
  IF signingPartiesCount < threshold THEN "ValidationError"
  ELSE IF signingPartiesCount > totalParties THEN "ValidationError"
  ELSE NoError

\* The bytes Buffer.from('default') holds.
DefaultMessage == <<100, 101, 102, 97, 117, 108, 116>>

\* A message is a Buffer or an array of bytes, or a string of character codes
\* below 128.  Buffer.from(array) keeps the low 8 bits of each entry;
\* Buffer.from(message || 'default') takes 'default' for the empty string.
normalizeMessage(message) ==
  IF message.type = "buffer" THEN message.data
  ELSE IF message.type = "array"
  THEN [i \in DOMAIN message.data |-> message.data[i] % 256]
  ELSE IF message.data = << >> THEN DefaultMessage
  ELSE message.data

\* The ephemeral shared key the core returns has r; the HTTP format has R.
FirstSet(a, b) == IF IsSet(a) THEN a ELSE b
normalizeEphSharedKey(ephSharedKey) ==
  [r |-> FirstSet(ephSharedKey.r, ephSharedKey.R), R |-> None, rI |-> ephSharedKey.rI]
serializeEphSharedKey(ephSharedKey) ==
  [r |-> None, R |-> FirstSet(ephSharedKey.r, ephSharedKey.R), rI |-> ephSharedKey.rI]

\* Array.prototype.sort() without a comparator orders by the decimal strings.
RECURSIVE Digits(_)
Digits(k) == IF k < 10 THEN <<k>> ELSE Digits(k \div 10) \o <<k % 10>>
RECURSIVE SeqLess(_, _)
SeqLess(a, b) ==
  IF b = << >> THEN FALSE
  ELSE IF a = << >> THEN TRUE
  ELSE IF Head(a) # Head(b) THEN Head(a) < Head(b)
  ELSE SeqLess(Tail(a), Tail(b))
InsertDefault(sorted, x) ==
  LET k == Cardinality({i \in DOMAIN sorted : ~SeqLess(Digits(x), Digits(sorted[i]))})
  IN  SubSeq(sorted, 1, k) \o <<x>> \o SubSeq(sorted, k + 1, Len(sorted))
RECURSIVE SortDefault(_)
SortDefault(arr) ==
  IF arr = << >> THEN << >>
  ELSE InsertDefault(SortDefault(SubSeq(arr, 1, Len(arr) - 1)), arr[Len(arr)])

\* Array.prototype.sort() of strings: the party identifiers by code units.
InsertId(sorted, x) ==
  LET k == Cardinality({i \in DOMAIN sorted : IdRank(sorted[i]) <= IdRank(x)})
  IN  SubSeq(sorted, 1, k) \o <<x>> \o SubSeq(sorted, k + 1, Len(sorted))
RECURSIVE SortIds(_)
SortIds(arr) ==
  IF arr = << >> THEN << >>
  ELSE InsertId(SortIds(SubSeq(arr, 1, Len(arr) - 1)), arr[Len(arr)])

\* ------------------------------------------------------------- MPCClient
\* _adjustThresholdForRust without its lower bound.
_adjustThresholdForRust_noLowerBound(userThreshold) == Ok(userThreshold - 1)

\* _adjustThresholdForRust handing the threshold on as it is.
_adjustThresholdForRust_unadjusted(userThreshold) ==
  IF userThreshold < 2 THEN Fail("ValidationError", -1) ELSE Ok(userThreshold)

_adjustThresholdForRust(userThreshold) ==
  IF userThreshold < 2 THEN Fail("ValidationError", -1) ELSE Ok(userThreshold - 1)

MPCClient_generateCommitment(key) ==
  [commitment |-> Phase1Broadcast(key).commitment,
   blindFactor |-> Phase1Broadcast(key).blind_factor]

\* distributeShares handing out shares without the core's check of the openings.
MPCClient_distributeShares_unverified(key, threshold, shareCount, blindFactors, publicKeys, commitments) ==
  LET shared == VssShare(key.a, threshold - 1, shareCount, [i \in 1..shareCount |-> i], key.seed)
  IN  Ok([vss |-> shared.vss, secretShares |-> shared.secret_shares])

\* constructKeypair summing the shares without the core's check of each share.
MPCClient_constructKeypair_unverified(key, threshold, shareCount, publicKeys, allSecretShares, allVssSchemes, partyIndex) ==
  Ok([y |-> SumMod(publicKeys),
      xI |-> SumMod([j \in 1..shareCount |-> allSecretShares[j][partyIndex + 1]]),
      prefix |-> Some(key.prefix)])

\* constructKeypair taking the shares the party itself distributed (a row of
\* allSecretShares) for the shares addressed to it (a column).
MPCClient_constructKeypair_ownRow(key, threshold, shareCount, publicKeys, allSecretShares, allVssSchemes, partyIndex) ==
  LET rustThreshold == _adjustThresholdForRust(threshold)
  IN  IF ~NoErr(rustThreshold) THEN Fail(rustThreshold.err, -1)
      ELSE IF Len(allSecretShares) < shareCount THEN Fail("TypeError", -1)
      ELSE LET partySecretShares == [j \in 1..shareCount |-> At(At(allSecretShares, partyIndex), j - 1)]
           IN  IF \E j \in 1..shareCount : partySecretShares[j] = UndefinedBytes
               THEN Fail("TypeError", -1)
               ELSE Phase2VerifyVssConstructKeypair(key, Val(rustThreshold.value), shareCount,
                      publicKeys, partySecretShares, allVssSchemes, partyIndex + 1)

MPCClient_distributeShares(key, threshold, shareCount, blindFactors, publicKeys, commitments) ==
  LET rustThreshold == _adjustThresholdForRust(threshold)
      parties == [i \in 1..shareCount |-> i]
  IN  IF ~NoErr(rustThreshold) THEN Fail(rustThreshold.err, -1)
      ELSE LET result == Phase1VerifyComPhase2Distribute(key, Val(rustThreshold.value),
                           shareCount, blindFactors, publicKeys, commitments, parties)
           IN  IF ~NoErr(result) THEN result
               ELSE Ok([vss |-> Val(result.value).vss,
                        secretShares |-> Val(result.value).secret_shares])

\* partySecretShares[j] = allSecretShares[j][partyIndex]; reading a row or the
\* bytes of a share that is not there is a TypeError.
MPCClient_constructKeypair(key, threshold, shareCount, publicKeys, allSecretShares, allVssSchemes, partyIndex) ==
  LET rustThreshold == _adjustThresholdForRust(threshold)
  IN  IF ~NoErr(rustThreshold) THEN Fail(rustThreshold.err, -1)
      ELSE IF Len(allSecretShares) < shareCount THEN Fail("TypeError", -1)
      ELSE LET partySecretShares == [j \in 1..shareCount |-> At(allSecretShares[j], partyIndex)]
           IN  IF \E j \in 1..shareCount : partySecretShares[j] = UndefinedBytes
               THEN Fail("TypeError", -1)
               ELSE Phase2VerifyVssConstructKeypair(key, Val(rustThreshold.value), shareCount,
                      publicKeys, partySecretShares, allVssSchemes, partyIndex + 1)

MPCClient_aggregateKey(sharedKeys) ==
  IF Len(sharedKeys) = 0 THEN Fail("ValidationError", -1)
  ELSE Ok([aggregatePublicKey |-> sharedKeys[1].y, sharedKeys |-> sharedKeys])


\* ------------------------------------------------------------------ state
VARIABLES
  coord,   \* the fields of the CoordinatorService
  svc,     \* the fields of each party's MPCService
  core,    \* the key objects the native module keeps behind its handles
  env,     \* the locals of the script that drives a key generation
  sign,    \* the locals of the scripts that drive the signing sessions
  last,    \* the last call made: operation, arguments, error thrown, result
  dev      \* the departures from the honest script made so far

vars == <<coord, svc, core, env, sign, last, dev>>

Runs == 1..MaxRuns

\* The orders in which a script may list the parties: ascending, descending
\* and rotated by one.
Ascending == [c \in 1..MaxParties |-> AllIds[c]]
Orders ==
  {Ascending,
   [c \in 1..MaxParties |-> AllIds[MaxParties + 1 - c]],
   [c \in 1..MaxParties |-> AllIds[(c % MaxParties) + 1]]}

\* The inputs the scripts draw from.
ThresholdInputs == 1..(MaxParties + 1)
PartyCountInputs == 1..MaxParties

CoordInit ==
  [session |-> None, parties |-> << >>, commitments |-> << >>, blindFactors |-> << >>,
   allVssSchemes |-> << >>, allSecretShares |-> << >>, sharedKeys |-> << >>,
   signingSession |-> None, signingPartyIndices |-> None, ephRPoints |-> None,
   ephCommitments |-> None, ephBlindFactors |-> None, allEphVssSchemes |-> None,
   allEphSecretShares |-> None, ephSharedKeys |-> None, aggregatePublicKey |-> None]

ServiceInit == [keyId |-> None, sharedKey |-> None]

\* The script of the integration test before its first call.
EnvInit(ids, seed, conc) ==
  [stage |-> "start", ids |-> ids, rngSeed |-> seed, conc |-> conc,
   threshold |-> 0, totalParties |-> 0, allPartyIds |-> << >>, i |-> 0,
   partyInits |-> << >>, partyCommitments |-> << >>, commitData |-> None,
   partyShares |-> << >>, shareData |-> None, partySharedKeys |-> << >>,
   keygenResult |-> None, faults |-> {}]

SignInit ==
  [stage |-> "idle", message |-> [type |-> "buffer", data |-> << >>],
   signingParties |-> << >>, signingSession |-> None,
   partyEphData |-> << >>, ephCommitData |-> None, partyEphShares |-> << >>,
   ephShareData |-> None, ephSharedKeys |-> << >>, partyLocalSigs |-> << >>,
   result |-> None, injected |-> FALSE]

LastInit == [op |-> "none", args |-> << >>, err |-> NoError, offender |-> -1, ret |-> None]

Call(op, args, res) ==
  [op |-> op, args |-> args, err |-> res.err, offender |-> res.offender, ret |-> res.value]

Init ==
  /\ coord = CoordInit
  /\ svc = [p \in PartyIds |-> ServiceInit]
  /\ core = [keys |-> << >>, ephKeys |-> {}]
  /\ env \in {EnvInit(o, seed, FALSE) : o \in Orders, seed \in 1..MaxSeed}
  /\ sign = [r \in Runs |-> SignInit]
  /\ last = LastInit
  /\ dev = 0

\* A call outside the script's order is a departure, and there are at most
\* MaxDeviations of them; the script ends with such a call.  A script that a
\* failed call has ended may besides be followed by one more call (the scripts
\* of interleaved signing sessions make none).
AfterFailure ==
  IF env.conc THEN FALSE
  ELSE IF env.stage = "failed" THEN TRUE
  ELSE env.stage = "keygenDone" /\ \E r \in DOMAIN sign : sign[r].stage = "failed"
Allowed(inOrder) ==
  IF inOrder THEN TRUE
  ELSE IF dev < MaxDeviations THEN TRUE
  ELSE AfterFailure
Count(inOrder) ==
  IF inOrder THEN dev
  ELSE IF dev < MaxDeviations THEN dev + 1
  ELSE dev
Stopped == [env EXCEPT !.stage = "stopped"]

\* The party IDs of a list of entries.
IdsOf(list) == [c \in DOMAIN list |-> list[c].partyId]

\* The entry of an object keyed by partyId (the last one written), if any.
Lookup(data, pid) ==
  IF \E k \in DOMAIN data : data[k].partyId = pid
  THEN Some(data[CHOOSE k \in DOMAIN data :
                   data[k].partyId = pid /\ \A h \in (k + 1)..Len(data) : data[h].partyId # pid])
  ELSE None

\* ------------------------------------------------ key generation: coordinator
\* CoordinatorService.startKeyGeneration(threshold, totalParties).
startKeyGeneration(threshold, totalParties) ==
  LET inOrder == env.stage = "start"
      e == validateThreshold(threshold, totalParties)
      session == [threshold |-> threshold, totalParties |-> totalParties, phase |-> "keygen"]
  IN  /\ Allowed(inOrder)
      /\ coord' = IF e = NoError
                  THEN [coord EXCEPT !.session = Some(session), !.parties = << >>,
                                     !.commitments = << >>, !.blindFactors = << >>,
                                     !.allVssSchemes = << >>, !.allSecretShares = << >>,
                                     !.sharedKeys = << >>]
                  ELSE coord
      /\ env' = IF ~inOrder THEN Stopped
                ELSE IF e = NoError
                THEN [env EXCEPT !.stage = "register", !.threshold = threshold,
                                 !.totalParties = totalParties,
                                 !.allPartyIds = SubSeq(env.ids, 1, totalParties)]
                ELSE env
      /\ last' = Call("startKeyGeneration",
                      [threshold |-> threshold, totalParties |-> totalParties],
                      IF e = NoError THEN Ok(session) ELSE Fail(e, -1))
      /\ dev' = Count(inOrder)
      /\ UNCHANGED <<svc, core, sign>>

\* CoordinatorService._getPartyIndexFromId: the first 16 bits of SHA-256(partyId).
_getPartyIndexFromId(partyId) == (7919 * IdRank(partyId) + 104) % 65536

\* The index derived from the partyId kept as the protocol index.
SetProtocolIndex_fromPartyId(parties) ==
  [idx \in DOMAIN parties |-> [parties[idx] EXCEPT !.protocolIndex = parties[idx].partyIndex]]

\* parties.forEach((p, idx) => p.protocolIndex = idx).
SetProtocolIndex(parties) ==
  [idx \in DOMAIN parties |-> [parties[idx] EXCEPT !.protocolIndex = idx - 1]]

\* CoordinatorService.registerParty(partyId, publicKey), called by the script
\* with the public key the party's register() returned; a call at another
\* moment passes the k-th of the registrations the script holds.
registerParty(k) ==
  /\ k \in DOMAIN env.partyInits
  /\ LET inOrder == IF env.stage = "register"
                    THEN Len(env.partyInits) = env.i + 1 /\ k = env.i + 1
                    ELSE FALSE
         init == env.partyInits[k]
         party == [partyId |-> init.partyId, publicKey |-> init.publicKey,
                   partyIndex |-> _getPartyIndexFromId(init.partyId), protocolIndex |-> -1]
         parties == SetProtocolIndex(SortByPartyId(Append(coord.parties, party)))
         found == CHOOSE g \in DOMAIN parties : parties[g].partyId = init.partyId
                    /\ \A h \in 1..(g - 1) : parties[h].partyId # init.partyId
         res == IF ~IsSet(coord.session) THEN Fail("SessionError", -1)
                ELSE Ok([partyIndex |-> parties[found].protocolIndex,
                         totalParties |-> Len(parties)])
     IN  /\ Allowed(inOrder)
         /\ coord' = IF NoErr(res) THEN [coord EXCEPT !.parties = parties] ELSE coord
         /\ env' = IF ~inOrder THEN Stopped
                   ELSE IF ~NoErr(res) THEN [env EXCEPT !.stage = "failed"]
                   ELSE IF env.i + 1 = Len(env.allPartyIds)
                        THEN [env EXCEPT !.stage = "commit", !.i = 0]
                        ELSE [env EXCEPT !.i = env.i + 1]
         /\ last' = Call("registerParty", init, res)
         /\ dev' = Count(inOrder)
  /\ UNCHANGED <<svc, core, sign>>


\* The party the script's loop is at, given the list the loop fills.
NextParty(list) == env.allPartyIds[Len(list) + 1]
KeyOf(pid) == core.keys[Val(svc[pid].keyId)]

\* collectCommitments storing and returning the triples in the payload's order.
collectCommitments_inPayloadOrder(k) ==
  LET inOrder == env.stage = "commit" /\ k = Len(env.allPartyIds)
      sorted == SubSeq(env.partyCommitments, 1, k)
      commitments == [c \in DOMAIN sorted |-> sorted[c].commitment]
      blindFactors == [c \in DOMAIN sorted |-> sorted[c].blindFactor]
      res == IF ~IsSet(coord.session) THEN Fail("SessionError", -1)
             ELSE Ok([threshold |-> Val(coord.session).threshold,
                      shareCount |-> Val(coord.session).totalParties,
                      blindFactors |-> blindFactors,
                      publicKeys |-> [c \in DOMAIN coord.parties |-> coord.parties[c].publicKey],
                      commitments |-> commitments,
                      parties |-> [c \in DOMAIN coord.parties |-> coord.parties[c].protocolIndex]])
  IN  /\ k \in 0..Len(env.partyCommitments)
      /\ Allowed(inOrder)
      /\ coord' = [coord EXCEPT !.commitments = commitments, !.blindFactors = blindFactors]
      /\ env' = IF ~inOrder THEN Stopped
                ELSE IF ~NoErr(res) THEN [env EXCEPT !.stage = "failed"]
                ELSE [env EXCEPT !.stage = "distribute", !.partyCommitments = sorted,
                                 !.commitData = res.value]
      /\ last' = Call("collectCommitments", SubSeq(env.partyCommitments, 1, k), res)
      /\ dev' = Count(inOrder)
      /\ UNCHANGED <<svc, core, sign>>

\* CoordinatorService.collectCommitments(partyCommitments): the script passes
\* its list once every party has committed; a call at another moment passes
\* the first k entries it holds.
collectCommitments(k) ==
  LET inOrder == env.stage = "commit" /\ k = Len(env.allPartyIds)
      sorted == SortByPartyId(SubSeq(env.partyCommitments, 1, k))
      commitments == [c \in DOMAIN sorted |-> sorted[c].commitment]
      blindFactors == [c \in DOMAIN sorted |-> sorted[c].blindFactor]
      res == IF ~IsSet(coord.session) THEN Fail("SessionError", -1)
             ELSE Ok([threshold |-> Val(coord.session).threshold,
                      shareCount |-> Val(coord.session).totalParties,
                      blindFactors |-> blindFactors,
                      publicKeys |-> [c \in DOMAIN coord.parties |-> coord.parties[c].publicKey],
                      commitments |-> commitments,
                      parties |-> [c \in DOMAIN coord.parties |-> coord.parties[c].protocolIndex]])
  IN  /\ k \in 0..Len(env.partyCommitments)
      /\ Allowed(inOrder)
      /\ coord' = [coord EXCEPT !.commitments = commitments, !.blindFactors = blindFactors]
      /\ env' = IF ~inOrder THEN Stopped
                ELSE IF ~NoErr(res) THEN [env EXCEPT !.stage = "failed"]
                ELSE [env EXCEPT !.stage = "distribute", !.partyCommitments = sorted,
                                 !.commitData = res.value]
      /\ last' = Call("collectCommitments", SubSeq(env.partyCommitments, 1, k), res)
      /\ dev' = Count(inOrder)
      /\ UNCHANGED <<svc, core, sign>>

\* collectShares handing each party the index derived from its ID.
collectShares_derivedIndex(k) ==
  LET inOrder == env.stage = "distribute" /\ k = Len(env.allPartyIds)
      sorted == SortByPartyId(SubSeq(env.partyShares, 1, k))
      allVssSchemes == [c \in DOMAIN sorted |-> sorted[c].vss]
      allSecretShares == [c \in DOMAIN sorted |-> sorted[c].secretShares]
      res == IF ~IsSet(coord.session) THEN Fail("SessionError", -1)
             ELSE Ok([c \in DOMAIN coord.parties |->
                        [partyId |-> coord.parties[c].partyId,
                         threshold |-> Val(coord.session).threshold,
                         shareCount |-> Len(coord.parties),
                         publicKeys |-> [h \in DOMAIN coord.parties |-> coord.parties[h].publicKey],
                         allSecretShares |-> allSecretShares,
                         allVssSchemes |-> allVssSchemes,
                         partyIndex |-> coord.parties[c].partyIndex]])
  IN  /\ k \in 0..Len(env.partyShares)
      /\ Allowed(inOrder)
      /\ coord' = [coord EXCEPT !.allVssSchemes = allVssSchemes,
                                !.allSecretShares = allSecretShares]
      /\ env' = IF ~inOrder THEN Stopped
                ELSE IF ~NoErr(res) THEN [env EXCEPT !.stage = "failed"]
                ELSE [env EXCEPT !.stage = "construct", !.partyShares = sorted,
                                 !.shareData = res.value]
      /\ last' = Call("collectShares", SubSeq(env.partyShares, 1, k), res)
      /\ dev' = Count(inOrder)
      /\ UNCHANGED <<svc, core, sign>>

\* CoordinatorService.collectShares(partyShares).
collectShares(k) ==
  LET inOrder == env.stage = "distribute" /\ k = Len(env.allPartyIds)
      sorted == SortByPartyId(SubSeq(env.partyShares, 1, k))
      allVssSchemes == [c \in DOMAIN sorted |-> sorted[c].vss]
      allSecretShares == [c \in DOMAIN sorted |-> sorted[c].secretShares]
      res == IF ~IsSet(coord.session) THEN Fail("SessionError", -1)
             ELSE Ok([c \in DOMAIN coord.parties |->
                        [partyId |-> coord.parties[c].partyId,
                         threshold |-> Val(coord.session).threshold,
                         shareCount |-> Len(coord.parties),
                         publicKeys |-> [h \in DOMAIN coord.parties |-> coord.parties[h].publicKey],
                         allSecretShares |-> allSecretShares,
                         allVssSchemes |-> allVssSchemes,
                         partyIndex |-> coord.parties[c].protocolIndex]])
  IN  /\ k \in 0..Len(env.partyShares)
      /\ Allowed(inOrder)
      /\ coord' = [coord EXCEPT !.allVssSchemes = allVssSchemes,
                                !.allSecretShares = allSecretShares]
      /\ env' = IF ~inOrder THEN Stopped
                ELSE IF ~NoErr(res) THEN [env EXCEPT !.stage = "failed"]
                ELSE [env EXCEPT !.stage = "construct", !.partyShares = sorted,
                                 !.shareData = res.value]
      /\ last' = Call("collectShares", SubSeq(env.partyShares, 1, k), res)
      /\ dev' = Count(inOrder)
      /\ UNCHANGED <<svc, core, sign>>

\* CoordinatorService.collectSharedKeys(partySharedKeys).
collectSharedKeys(k) ==
  LET inOrder == env.stage = "construct" /\ k = Len(env.allPartyIds)
      sorted == SortByPartyId(SubSeq(env.partySharedKeys, 1, k))
      sharedKeys == [c \in DOMAIN sorted |-> sorted[c].sharedKey]
      agg == MPCClient_aggregateKey(sharedKeys)
      res == IF ~NoErr(agg) THEN agg
             ELSE Ok([aggregatePublicKey |-> Val(agg.value).aggregatePublicKey,
                      sharedKeys |-> sharedKeys])
  IN  /\ k \in 0..Len(env.partySharedKeys)
      /\ Allowed(inOrder)
      /\ coord' = IF NoErr(agg)
                  THEN [coord EXCEPT !.sharedKeys = sharedKeys,
                          !.aggregatePublicKey = Some(Val(agg.value).aggregatePublicKey)]
                  ELSE [coord EXCEPT !.sharedKeys = sharedKeys]
      /\ env' = IF ~inOrder THEN Stopped
                ELSE IF ~NoErr(res) THEN [env EXCEPT !.stage = "failed"]
                ELSE [env EXCEPT !.stage = "keygenDone", !.partySharedKeys = sorted,
                                 !.keygenResult = res.value]
      /\ last' = Call("collectSharedKeys", SubSeq(env.partySharedKeys, 1, k), res)
      /\ dev' = Count(inOrder)
      /\ UNCHANGED <<svc, core, sign>>

\* ----------------------------------------------------- key generation: agents
\* MPCService.register() = initialize(): a fresh key behind a new handle, on
\* whichever agent it is called; the script calls it once on each party.
MPCService_register(pid) ==
  LET inOrder == /\ env.stage = "register"
                 /\ Len(env.partyInits) = env.i
                 /\ pid = NextParty(env.partyInits)
      key == LongLivedKey(env.rngSeed + Len(core.keys))
      res == Ok([partyId |-> pid, publicKey |-> key.y])
  IN  /\ Allowed(inOrder)
      /\ core' = [core EXCEPT !.keys = Append(core.keys, key)]
      /\ svc' = [svc EXCEPT ![pid].keyId = Some(Len(core.keys) + 1)]
      /\ env' = IF ~inOrder THEN Stopped
                ELSE [env EXCEPT !.partyInits = Append(env.partyInits, Val(res.value))]
      /\ last' = Call("register", [partyId |-> pid], res)
      /\ dev' = Count(inOrder)
      /\ UNCHANGED <<coord, sign>>

\* generateCommitment without its check of keyId: the absent handle reaches the
\* core, which knows no key of that handle.
MPCService_generateCommitment_unchecked(pid) ==
  LET inOrder == /\ env.stage = "commit"
                 /\ Len(env.partyCommitments) < Len(env.allPartyIds)
                 /\ pid = NextParty(env.partyCommitments)
      res == IF ~IsSet(svc[pid].keyId) THEN Fail("InvalidInput", -1)
             ELSE Ok(MPCClient_generateCommitment(KeyOf(pid)))
  IN  /\ Allowed(inOrder)
      /\ env' = IF ~inOrder THEN Stopped
                ELSE IF ~NoErr(res) THEN [env EXCEPT !.stage = "failed"]
                ELSE [env EXCEPT !.partyCommitments =
                        Append(env.partyCommitments,
                               [partyId |-> pid,
                                commitment |-> Val(res.value).commitment,
                                blindFactor |-> Val(res.value).blindFactor])]
      /\ last' = Call("generateCommitment", [partyId |-> pid], res)
      /\ dev' = Count(inOrder)
      /\ UNCHANGED <<coord, svc, core, sign>>

\* MPCService.generateCommitment(), on whichever agent it is called.
MPCService_generateCommitment(pid) ==
  LET inOrder == /\ env.stage = "commit"
                 /\ Len(env.partyCommitments) < Len(env.allPartyIds)
                 /\ pid = NextParty(env.partyCommitments)
      res == IF ~IsSet(svc[pid].keyId) THEN Fail("ServiceError", -1)
             ELSE Ok(MPCClient_generateCommitment(KeyOf(pid)))
  IN  /\ Allowed(inOrder)
      /\ env' = IF ~inOrder THEN Stopped
                ELSE IF ~NoErr(res) THEN [env EXCEPT !.stage = "failed"]
                ELSE [env EXCEPT !.partyCommitments =
                        Append(env.partyCommitments,
                               [partyId |-> pid,
                                commitment |-> Val(res.value).commitment,
                                blindFactor |-> Val(res.value).blindFactor])]
      /\ last' = Call("generateCommitment", [partyId |-> pid], res)
      /\ dev' = Count(inOrder)
      /\ UNCHANGED <<coord, svc, core, sign>>

\* MPCService.distributeShares(threshold, shareCount, blindFactors, publicKeys,
\* commitments, partyIndex) with the commit data the coordinator returned; the
\* script passes the threshold of the commit data to each party in turn.
MPCService_distributeShares(pid, threshold) ==
  /\ IsSet(env.commitData)
  /\ LET cd == Val(env.commitData)
         inOrder == /\ env.stage = "distribute"
                    /\ Len(env.partyShares) < Len(env.allPartyIds)
                    /\ pid = NextParty(env.partyShares)
                    /\ threshold = cd.threshold
         res == IF ~IsSet(svc[pid].keyId) THEN Fail("ServiceError", -1)
                ELSE MPCClient_distributeShares(KeyOf(pid), threshold, cd.shareCount,
                       cd.blindFactors, cd.publicKeys, cd.commitments)
     IN  /\ Allowed(inOrder)
         /\ env' = IF ~inOrder THEN Stopped
                   ELSE IF ~NoErr(res) THEN [env EXCEPT !.stage = "failed"]
                   ELSE [env EXCEPT !.partyShares =
                           Append(env.partyShares,
                                  [partyId |-> pid, vss |-> Val(res.value).vss,
                                   secretShares |-> Val(res.value).secretShares])]
         /\ last' = Call("distributeShares",
                         [partyId |-> pid, threshold |-> threshold,
                          partyIndex |-> At(cd.parties, Len(env.partyShares))],
                         res)
         /\ dev' = Count(inOrder)
  /\ UNCHANGED <<coord, svc, core, sign>>

\* MPCService.constructKeypair(...) with the packet the coordinator returned
\* for the party `of`; the script passes each party its own packet, threshold
\* included.  sharedKey is assigned only when the client call returns.
MPCService_constructKeypair(pid, of, threshold) ==
  /\ IsSet(env.shareData)
  /\ LET packet == Lookup(Val(env.shareData), of)
         pk == Val(packet)
         inOrder == /\ env.stage = "construct"
                    /\ Len(env.partySharedKeys) < Len(env.allPartyIds)
                    /\ pid = NextParty(env.partySharedKeys)
                    /\ of = pid
                    /\ IF IsSet(packet) THEN threshold = pk.threshold
                       ELSE threshold = env.threshold
         res == IF ~IsSet(packet) THEN Fail("TypeError", -1)
                ELSE IF ~IsSet(svc[pid].keyId) THEN Fail("ServiceError", -1)
                ELSE MPCClient_constructKeypair(KeyOf(pid), threshold, pk.shareCount,
                       pk.publicKeys, pk.allSecretShares, pk.allVssSchemes, pk.partyIndex)
     IN  /\ Allowed(inOrder)
         /\ svc' = IF NoErr(res) THEN [svc EXCEPT ![pid].sharedKey = res.value] ELSE svc
         /\ env' = IF ~inOrder THEN Stopped
                   ELSE IF ~NoErr(res) THEN [env EXCEPT !.stage = "failed"]
                   ELSE [env EXCEPT !.partySharedKeys =
                           Append(env.partySharedKeys,
                                  [partyId |-> pid, sharedKey |-> Val(res.value)])]
         /\ last' = Call("constructKeypair",
                         [partyId |-> pid, packetOf |-> of, threshold |-> threshold,
                          partyIndex |-> IF IsSet(packet) THEN pk.partyIndex ELSE -1],
                         res)
         /\ dev' = Count(inOrder)
  /\ UNCHANGED <<coord, core, sign>>

\* --------------------------------------------------- MPCClient: signing
MPCClient_createEphemeralKey(key, message) == EphemeralKey(key, message)

MPCClient_generateEphemeralCommitment(eph) ==
  [commitment |-> EphemeralPhase1Broadcast(eph).commitment,
   blindFactor |-> EphemeralPhase1Broadcast(eph).blind_factor]

MPCClient_distributeEphemeralShares(eph, threshold, shareCount, ephBlindFactors, ephRPoints, ephCommitments, signingParties) ==
  LET rustThreshold == _adjustThresholdForRust(threshold)
      signingPartiesVSS == [c \in DOMAIN signingParties |-> signingParties[c] + 1]
  IN  IF ~NoErr(rustThreshold) THEN Fail(rustThreshold.err, -1)
      ELSE LET ephResult == EphemeralPhase1VerifyComPhase2Distribute(eph,
                              Val(rustThreshold.value), shareCount, ephBlindFactors,
                              ephRPoints, ephCommitments, signingPartiesVSS)
           IN  IF ~NoErr(ephResult) THEN ephResult
               ELSE Ok([vss |-> Val(ephResult.value).vss,
                        secretShares |-> Val(ephResult.value).secret_shares])

\* partyEphSecretShares[j] = allEphSecretShares[j][partyIndex] for each j below
\* signingParties.length.
MPCClient_constructEphemeralKeypair(eph, threshold, shareCount, ephRPoints, allEphSecretShares, allEphVssSchemes, partyIndex, signingParties) ==
  LET rustThreshold == _adjustThresholdForRust(threshold)
      signingPartyIdx == IndexOf(signingParties, partyIndex)
  IN  IF ~NoErr(rustThreshold) THEN Fail(rustThreshold.err, -1)
      ELSE IF signingPartyIdx = -1 THEN Fail("ValidationError", -1)
      ELSE IF Len(allEphSecretShares) < Len(signingParties) THEN Fail("TypeError", -1)
      ELSE LET partyEphSecretShares ==
                 [j \in 1..Len(signingParties) |-> At(allEphSecretShares[j], partyIndex)]
           IN  IF \E j \in 1..Len(signingParties) : partyEphSecretShares[j] = UndefinedBytes
               THEN Fail("TypeError", -1)
               ELSE LET res == EphemeralPhase2VerifyVssConstructKeypair(eph,
                                 Val(rustThreshold.value), shareCount, ephRPoints,
                                 partyEphSecretShares, allEphVssSchemes, partyIndex + 1)
                    IN  IF ~NoErr(res) THEN res
                        ELSE Ok([r |-> Some(Val(res.value).r), R |-> None,
                                 rI |-> Val(res.value).rI])

\* ephSharedKey.r.bytes is read: a key without r is a TypeError.
MPCClient_computeLocalSignature(message, ephSharedKey, sharedKey) ==
  IF ~IsSet(ephSharedKey.r) THEN Fail("TypeError", -1)
  ELSE Ok(ComputeLocalSig(message, [r |-> Val(ephSharedKey.r), rI |-> ephSharedKey.rI],
                          sharedKey))

MPCClient_verifyLocalSignatures(localSigs, signingParties, keyGenVssSchemes, ephVssSchemes) ==
  VerifyLocalSigs(localSigs, signingParties, keyGenVssSchemes, ephVssSchemes)

MPCClient_aggregateSignature(vssSum, localSigs, signingParties, aggregateR) ==
  GenerateSignature(vssSum, localSigs, signingParties, aggregateR)

MPCClient_verifySignature(signature, message, aggregatePublicKey) ==
  VerifySignature(signature, message, aggregatePublicKey)

\* -------------------------------------------------------- signing: coordinator
\* The messages and the signer lists a signing script is started with.
Messages == {[type |-> "buffer", data |-> <<1>>], [type |-> "string", data |-> <<104, 105>>]}

RECURSIVE SubLists(_)
SubLists(list) ==
  IF list = << >> THEN {<< >>}
  ELSE LET rest == SubLists(Tail(list))
       IN  rest \cup {<<Head(list)>> \o l : l \in rest}
SignerLists == SubLists(env.allPartyIds) \ {<< >>}
\* Signer lists that name a party twice: one party alone, and every party with
\* the first one once more.  A script passes such a list only as a departure.
RepeatedLists ==
  IF env.allPartyIds = << >> THEN {}
  ELSE {<<env.allPartyIds[c], env.allPartyIds[c]>> : c \in DOMAIN env.allPartyIds}
         \cup {Append(env.allPartyIds, env.allPartyIds[1])}
NoRepeats(ids) == \A a, b \in DOMAIN ids : a # b => ids[a] # ids[b]

\* Session r's script is at its stage, after the key generation script.
AtStage(r, stage) ==
  /\ env.stage = "keygenDone"
  /\ sign[r].stage = stage
  /\ IF r = 1 THEN TRUE ELSE env.conc /\ sign[1].stage # "idle"

\* CoordinatorService.startSigning(message, signingParties).
startSigning(r, message, ids) ==
  LET inOrder == AtStage(r, "idle") /\ NoRepeats(ids)
      known == \A c \in DOMAIN ids :
                 \E h \in DOMAIN coord.parties : coord.parties[h].partyId = ids[c]
      indices == [c \in DOMAIN ids |->
                    coord.parties[CHOOSE h \in DOMAIN coord.parties :
                                    coord.parties[h].partyId = SortIds(ids)[c]
                                    /\ \A g \in 1..(h - 1) :
                                         coord.parties[g].partyId # SortIds(ids)[c]].protocolIndex]
      messageBuffer == normalizeMessage(message)
      signingSession == [message |-> messageBuffer, signingParties |-> SortIds(ids),
                         phase |-> "signing"]
      checked == IF Len(ids) < Val(coord.session).threshold
                 THEN validateSigningParties(Len(ids), Val(coord.session).threshold,
                                             Val(coord.session).totalParties)
                 ELSE NoError
      e == IF ~IsSet(coord.session) THEN "StateError"
           ELSE IF checked # NoError THEN checked
           ELSE IF ~known THEN "Error"
           ELSE NoError
      res == IF e = NoError
             THEN Ok([message |-> messageBuffer, signingParties |-> SortDefault(indices)])
             ELSE Fail(e, -1)
  IN  /\ Allowed(inOrder)
      /\ coord' = IF e = NoError
                  THEN [coord EXCEPT !.signingSession = Some(signingSession),
                                     !.signingPartyIndices = Some(SortDefault(indices))]
                  ELSE IF e = "Error"
                  THEN [coord EXCEPT !.signingSession = Some(signingSession)]
                  ELSE coord
      /\ env' = IF ~inOrder THEN Stopped ELSE env
      /\ sign' = IF ~inOrder THEN sign
                 ELSE IF e = NoError
                 THEN [sign EXCEPT ![r].stage = "ephGen", ![r].message = message,
                                   ![r].signingParties = SortIds(ids),
                                   ![r].signingSession = res.value]
                 ELSE [sign EXCEPT ![r].stage = "failed", ![r].message = message,
                                   ![r].signingParties =
                                     IF e = "Error" THEN SortIds(ids) ELSE ids]
      /\ last' = Call("startSigning", [run |-> r, message |-> message, signingParties |-> ids],
                      res)
      /\ dev' = Count(inOrder)
      /\ UNCHANGED <<svc, core>>

\* CoordinatorService.collectEphemeralKeysAndCommitments(partyEphData).
collectEphemeralKeysAndCommitments(r, k) ==
  LET inOrder == AtStage(r, "ephGen") /\ k = Len(sign[r].signingParties)
      sorted == SortByPartyId(SubSeq(sign[r].partyEphData, 1, k))
      ephRPoints == [c \in DOMAIN sorted |-> sorted[c].ephR]
      ephCommitments == [c \in DOMAIN sorted |-> sorted[c].commitment]
      ephBlindFactors == [c \in DOMAIN sorted |-> sorted[c].blindFactor]
      res == IF ~IsSet(coord.signingPartyIndices) THEN Fail("StateError", -1)
             ELSE Ok([ephRPoints |-> ephRPoints, ephCommitments |-> ephCommitments,
                      ephBlindFactors |-> ephBlindFactors,
                      signingPartyIndices |-> Val(coord.signingPartyIndices)])
  IN  /\ k \in 0..Len(sign[r].partyEphData)
      /\ Allowed(inOrder)
      /\ coord' = [coord EXCEPT !.ephRPoints = Some(ephRPoints),
                                !.ephCommitments = Some(ephCommitments),
                                !.ephBlindFactors = Some(ephBlindFactors)]
      /\ env' = IF ~inOrder THEN Stopped ELSE env
      /\ sign' = IF ~inOrder THEN sign
                 ELSE IF ~NoErr(res) THEN [sign EXCEPT ![r].stage = "failed"]
                 ELSE [sign EXCEPT ![r].stage = "ephDistribute", ![r].partyEphData = sorted,
                                   ![r].ephCommitData = res.value]
      /\ last' = Call("collectEphemeralKeysAndCommitments",
                      [run |-> r, payload |-> SubSeq(sign[r].partyEphData, 1, k)], res)
      /\ dev' = Count(inOrder)
      /\ UNCHANGED <<svc, core>>

\* collectEphemeralShares storing the ephemeral VSS schemes in the field of the
\* key generation schemes.
collectEphemeralShares_intoKeygenSchemes(r, k) ==
  LET inOrder == AtStage(r, "ephDistribute") /\ k = Len(sign[r].signingParties)
      sorted == SortByPartyId(SubSeq(sign[r].partyEphShares, 1, k))
      allEphVssSchemes == [c \in DOMAIN sorted |-> sorted[c].vss]
      allEphSecretShares == [c \in DOMAIN sorted |-> sorted[c].secretShares]
      spi == Val(coord.signingPartyIndices)
      res == IF ~IsSet(coord.signingPartyIndices) \/ ~IsSet(coord.session)
                \/ ~IsSet(coord.ephRPoints)
             THEN Fail("StateError", -1)
             ELSE IF \E c \in DOMAIN spi : spi[c] + 1 \notin DOMAIN coord.parties
             THEN Fail("StateError", -1)
             ELSE Ok([c \in DOMAIN spi |->
                        [partyId |-> coord.parties[spi[c] + 1].partyId,
                         threshold |-> Val(coord.session).threshold,
                         shareCount |-> Len(spi),
                         ephRPoints |-> Val(coord.ephRPoints),
                         allEphSecretShares |-> allEphSecretShares,
                         allEphVssSchemes |-> allEphVssSchemes,
                         partyIndex |-> spi[c],
                         signingParties |-> spi]])
  IN  /\ k \in 0..Len(sign[r].partyEphShares)
      /\ Allowed(inOrder)
      /\ coord' = [coord EXCEPT !.allVssSchemes = allEphVssSchemes,
                                !.allEphSecretShares = Some(allEphSecretShares)]
      /\ env' = IF ~inOrder THEN Stopped ELSE env
      /\ sign' = IF ~inOrder THEN sign
                 ELSE IF ~NoErr(res) THEN [sign EXCEPT ![r].stage = "failed"]
                 ELSE [sign EXCEPT ![r].stage = "ephConstruct", ![r].partyEphShares = sorted,
                                   ![r].ephShareData = res.value]
      /\ last' = Call("collectEphemeralShares",
                      [run |-> r, payload |-> SubSeq(sign[r].partyEphShares, 1, k)], res)
      /\ dev' = Count(inOrder)
      /\ UNCHANGED <<svc, core>>

\* CoordinatorService.collectEphemeralShares(partyEphShares).
collectEphemeralShares(r, k) ==
  LET inOrder == AtStage(r, "ephDistribute") /\ k = Len(sign[r].signingParties)
      sorted == SortByPartyId(SubSeq(sign[r].partyEphShares, 1, k))
      allEphVssSchemes == [c \in DOMAIN sorted |-> sorted[c].vss]
      allEphSecretShares == [c \in DOMAIN sorted |-> sorted[c].secretShares]
      spi == Val(coord.signingPartyIndices)
      res == IF ~IsSet(coord.signingPartyIndices) \/ ~IsSet(coord.session)
                \/ ~IsSet(coord.ephRPoints)
             THEN Fail("StateError", -1)
             ELSE IF \E c \in DOMAIN spi : spi[c] + 1 \notin DOMAIN coord.parties
             THEN Fail("StateError", -1)
             ELSE Ok([c \in DOMAIN spi |->
                        [partyId |-> coord.parties[spi[c] + 1].partyId,
                         threshold |-> Val(coord.session).threshold,
                         shareCount |-> Len(spi),
                         ephRPoints |-> Val(coord.ephRPoints),
                         allEphSecretShares |-> allEphSecretShares,
                         allEphVssSchemes |-> allEphVssSchemes,
                         partyIndex |-> spi[c],
                         signingParties |-> spi]])
  IN  /\ k \in 0..Len(sign[r].partyEphShares)
      /\ Allowed(inOrder)
      /\ coord' = [coord EXCEPT !.allEphVssSchemes = Some(allEphVssSchemes),
                                !.allEphSecretShares = Some(allEphSecretShares)]
      /\ env' = IF ~inOrder THEN Stopped ELSE env
      /\ sign' = IF ~inOrder THEN sign
                 ELSE IF ~NoErr(res) THEN [sign EXCEPT ![r].stage = "failed"]
                 ELSE [sign EXCEPT ![r].stage = "ephConstruct", ![r].partyEphShares = sorted,
                                   ![r].ephShareData = res.value]
      /\ last' = Call("collectEphemeralShares",
                      [run |-> r, payload |-> SubSeq(sign[r].partyEphShares, 1, k)], res)
      /\ dev' = Count(inOrder)
      /\ UNCHANGED <<svc, core>>

\* CoordinatorService.collectLocalSignatures(partyLocalSigs).
collectLocalSignatures(r, k) ==
  LET inOrder == AtStage(r, "localSig") /\ k = Len(sign[r].signingParties)
      sorted == SortByPartyId(SubSeq(sign[r].partyLocalSigs, 1, k))
      localSigs == [c \in DOMAIN sorted |-> sorted[c].localSig]
      ready == /\ IsSet(coord.signingPartyIndices) /\ IsSet(coord.signingSession)
               /\ IsSet(coord.allEphVssSchemes) /\ IsSet(coord.ephSharedKeys)
               /\ IsSet(coord.aggregatePublicKey)
      vssSum == MPCClient_verifyLocalSignatures(localSigs, Val(coord.signingPartyIndices),
                  coord.allVssSchemes, Val(coord.allEphVssSchemes))
      firstEphKey == Val(coord.ephSharedKeys)[1]
      aggregateR == FirstSet(firstEphKey.r, firstEphKey.R)
      signature == MPCClient_aggregateSignature(Val(vssSum.value), localSigs,
                     Val(coord.signingPartyIndices), Val(aggregateR))
      isValid == MPCClient_verifySignature(signature, Val(coord.signingSession).message,
                   Val(coord.aggregatePublicKey))
      res == IF ~ready THEN Fail("StateError", -1)
             ELSE IF ~NoErr(vssSum) THEN vssSum
             ELSE IF Len(Val(coord.ephSharedKeys)) = 0 THEN Fail("StateError", -1)
             ELSE IF ~IsSet(aggregateR) THEN Fail("StateError", -1)
             ELSE Ok([signature |-> signature,
                      aggregatePublicKey |-> Val(coord.aggregatePublicKey),
                      isValid |-> isValid])
  IN  /\ k \in 0..Len(sign[r].partyLocalSigs)
      /\ Allowed(inOrder)
      /\ env' = IF ~inOrder THEN Stopped ELSE env
      /\ sign' = IF ~inOrder THEN sign
                 ELSE IF ~NoErr(res) THEN [sign EXCEPT ![r].stage = "failed"]
                 ELSE [sign EXCEPT ![r].stage = "done", ![r].partyLocalSigs = sorted,
                                   ![r].result = res.value]
      /\ last' = Call("collectLocalSignatures",
                      [run |-> r, payload |-> SubSeq(sign[r].partyLocalSigs, 1, k)], res)
      /\ dev' = Count(inOrder)
      /\ UNCHANGED <<coord, svc, core>>

\* The integration test sets the coordinator's private fields before it asks
\* for the local signatures.
setCoordinatorState(r) ==
  /\ AtStage(r, "inject")
  /\ LET first == Lookup(Val(sign[r].ephShareData), sign[r].signingParties[1])
         keygen == Lookup(Val(env.shareData), env.allPartyIds[1])
     IN  /\ IsSet(first) /\ IsSet(keygen)
         /\ coord' = [coord EXCEPT
                        !.ephSharedKeys = Some(sign[r].ephSharedKeys),
                        !.allEphVssSchemes = Some(Val(first).allEphVssSchemes),
                        !.allVssSchemes = Val(keygen).allVssSchemes,
                        !.signingPartyIndices = Some(Val(sign[r].signingSession).signingParties)]
  /\ sign' = [sign EXCEPT ![r].stage = "localSig", ![r].injected = TRUE]
  /\ last' = Call("setCoordinatorState", [run |-> r], Ok(<< >>))
  /\ UNCHANGED <<svc, core, env, dev>>

\* ------------------------------------------------------------ signing: agents
\* An ephemeral key whose nonce also depends on how many ephemeral keys the
\* core has made.
EphKeyOf_freshNonce(ephKeyId) ==
  LET eph == EphemeralKey(core.keys[ephKeyId.keyId], ephKeyId.message)
      r == (eph.r + 1 + Cardinality(core.ephKeys)) % Q
  IN  [eph EXCEPT !.r = r, !.R = BasePointMul(r)]

\* The handle of an ephemeral key names the long-lived key and the message it
\* was created from; the key object behind it is a function of the two.
EphKeyOf(ephKeyId) ==
  MPCClient_createEphemeralKey(core.keys[ephKeyId.keyId], ephKeyId.message)

SignerAt(r, list) == sign[r].signingParties[Len(list) + 1]

\* MPCService.createEphemeralKey(message, partyIndex): the ephemeral key alone.
\* No script calls it; a call is a departure.
MPCService_createEphemeralKey(pid, message) ==
  LET ephKeyId == [keyId |-> Val(svc[pid].keyId), message |-> normalizeMessage(message)]
      res == IF ~IsSet(svc[pid].keyId) THEN Fail("ServiceError", -1)
             ELSE Ok([ephKeyId |-> ephKeyId, ephR |-> EphKeyOf(ephKeyId).R])
  IN  /\ Allowed(FALSE)
      /\ core' = IF NoErr(res) THEN [core EXCEPT !.ephKeys = core.ephKeys \cup {ephKeyId}]
                 ELSE core
      /\ env' = Stopped
      /\ last' = Call("createEphemeralKey", [partyId |-> pid, message |-> message], res)
      /\ dev' = Count(FALSE)
      /\ UNCHANGED <<coord, svc, sign>>

\* MPCService.startEphemeralKeyGeneration(message, partyIndex), on whichever
\* agent it is called; the script of session r calls it on each signer with the
\* session's message.
MPCService_startEphemeralKeyGeneration(r, pid, message) ==
  LET inOrder == /\ AtStage(r, "ephGen")
                 /\ Len(sign[r].partyEphData) < Len(sign[r].signingParties)
                 /\ pid = SignerAt(r, sign[r].partyEphData)
                 /\ message = sign[r].message
      ephKeyId == [keyId |-> Val(svc[pid].keyId), message |-> normalizeMessage(message)]
      eph == EphKeyOf(ephKeyId)
      commit == MPCClient_generateEphemeralCommitment(eph)
      res == IF ~IsSet(svc[pid].keyId) THEN Fail("ServiceError", -1)
             ELSE Ok([partyId |-> pid, ephKeyId |-> ephKeyId,
                      ephR |-> eph.R, commitment |-> commit.commitment,
                      blindFactor |-> commit.blindFactor])
  IN  /\ IF inOrder THEN TRUE ELSE r = 1
      /\ Allowed(inOrder)
      /\ core' = IF NoErr(res) THEN [core EXCEPT !.ephKeys = core.ephKeys \cup {ephKeyId}]
                 ELSE core
      /\ env' = IF ~inOrder THEN Stopped ELSE env
      /\ sign' = IF ~inOrder THEN sign
                 ELSE IF ~NoErr(res) THEN [sign EXCEPT ![r].stage = "failed"]
                 ELSE [sign EXCEPT ![r].partyEphData =
                         Append(sign[r].partyEphData, Val(res.value))]
      /\ last' = Call("startEphemeralKeyGeneration",
                      [run |-> r, partyId |-> pid, message |-> message,
                       partyIndex |-> IF IsSet(sign[r].signingSession)
                                      THEN At(Val(sign[r].signingSession).signingParties,
                                              Len(sign[r].partyEphData))
                                      ELSE -1],
                      res)
      /\ dev' = Count(inOrder)
      /\ UNCHANGED <<coord, svc>>

\* MPCService.distributeEphemeralShares(ephKeyId, threshold, shareCount, ...);
\* the script passes the threshold of the key generation.
MPCService_distributeEphemeralShares(r, threshold) ==
  /\ AtStage(r, "ephDistribute")
  /\ Len(sign[r].partyEphShares) < Len(sign[r].signingParties)
  /\ LET inOrder == threshold = env.threshold
         pid == SignerAt(r, sign[r].partyEphShares)
         eph == sign[r].partyEphData[Len(sign[r].partyEphShares) + 1]
         cd == Val(sign[r].ephCommitData)
         res == MPCClient_distributeEphemeralShares(EphKeyOf(eph.ephKeyId),
                  threshold, Len(sign[r].signingParties), cd.ephBlindFactors,
                  cd.ephRPoints, cd.ephCommitments, Val(sign[r].signingSession).signingParties)
     IN  /\ Allowed(inOrder)
         /\ env' = IF ~inOrder THEN Stopped ELSE env
         /\ sign' = IF ~inOrder THEN sign
                    ELSE IF ~NoErr(res) THEN [sign EXCEPT ![r].stage = "failed"]
                    ELSE [sign EXCEPT ![r].partyEphShares =
                            Append(sign[r].partyEphShares,
                                   [partyId |-> pid, vss |-> Val(res.value).vss,
                                    secretShares |-> Val(res.value).secretShares])]
         /\ last' = Call("distributeEphemeralShares",
                         [run |-> r, partyId |-> pid, threshold |-> threshold], res)
         /\ dev' = Count(inOrder)
  /\ UNCHANGED <<coord, svc, core>>

\* MPCService.constructEphemeralKeypair(...) with the packet the coordinator
\* returned for this party and the threshold of the key generation.
MPCService_constructEphemeralKeypair(r, threshold) ==
  /\ AtStage(r, "ephConstruct")
  /\ Len(sign[r].ephSharedKeys) < Len(sign[r].signingParties)
  /\ LET inOrder == threshold = env.threshold
         pid == SignerAt(r, sign[r].ephSharedKeys)
         eph == sign[r].partyEphData[Len(sign[r].ephSharedKeys) + 1]
         packet == Lookup(Val(sign[r].ephShareData), pid)
         pk == Val(packet)
         got == MPCClient_constructEphemeralKeypair(EphKeyOf(eph.ephKeyId),
                  threshold, Len(sign[r].signingParties),
                  Val(sign[r].ephCommitData).ephRPoints, pk.allEphSecretShares,
                  pk.allEphVssSchemes, pk.partyIndex,
                  Val(sign[r].signingSession).signingParties)
         res == IF ~IsSet(packet) THEN Fail("TypeError", -1)
                ELSE IF ~NoErr(got) THEN got
                ELSE Ok(serializeEphSharedKey(Val(got.value)))
         full == Len(sign[r].ephSharedKeys) + 1 = Len(sign[r].signingParties)
     IN  /\ Allowed(inOrder)
         /\ env' = IF ~inOrder THEN Stopped ELSE env
         /\ sign' = IF ~inOrder THEN sign
                    ELSE IF ~NoErr(res) THEN [sign EXCEPT ![r].stage = "failed"]
                    ELSE [sign EXCEPT ![r].ephSharedKeys =
                                        Append(sign[r].ephSharedKeys, Val(res.value)),
                                      ![r].stage = IF full THEN "inject" ELSE "ephConstruct"]
         /\ last' = Call("constructEphemeralKeypair",
                         [run |-> r, partyId |-> pid, threshold |-> threshold,
                          partyIndex |-> IF IsSet(packet) THEN pk.partyIndex ELSE -1],
                         res)
         /\ dev' = Count(inOrder)
  /\ UNCHANGED <<coord, svc, core>>

\* MPCService.computeLocalSignature(message, ephSharedKey); a script that only
\* uses the public operations goes on to it without setting any field.
MPCService_computeLocalSignature(r) ==
  /\ IF AtStage(r, "inject") THEN TRUE ELSE AtStage(r, "localSig")
  /\ Len(sign[r].partyLocalSigs) < Len(sign[r].signingParties)
  /\ LET pid == SignerAt(r, sign[r].partyLocalSigs)
         ephSharedKey == sign[r].ephSharedKeys[Len(sign[r].partyLocalSigs) + 1]
         got == MPCClient_computeLocalSignature(normalizeMessage(sign[r].message),
                  normalizeEphSharedKey(ephSharedKey), Val(svc[pid].sharedKey))
         res == IF ~IsSet(svc[pid].sharedKey) THEN Fail("ServiceError", -1) ELSE got
     IN  /\ sign' = IF ~NoErr(res) THEN [sign EXCEPT ![r].stage = "failed"]
                    ELSE [sign EXCEPT ![r].stage = "localSig",
                                      ![r].partyLocalSigs =
                                        Append(sign[r].partyLocalSigs,
                                               [partyId |-> pid, localSig |-> Val(res.value)])]
         /\ last' = Call("computeLocalSignature", [run |-> r, partyId |-> pid], res)
  /\ UNCHANGED <<coord, svc, core, env, dev>>

SigningNext ==
  \/ \E r \in Runs, message \in Messages, ids \in SignerLists \cup RepeatedLists :
       startSigning(r, message, ids)
  \/ \E r \in Runs, pid \in PartyIds, message \in Messages :
       MPCService_startEphemeralKeyGeneration(r, pid, message)
  \/ \E r \in Runs, k \in 0..MaxParties : collectEphemeralKeysAndCommitments(r, k)
  \/ \E r \in Runs, t \in ThresholdInputs : MPCService_distributeEphemeralShares(r, t)
  \/ \E r \in Runs, k \in 0..MaxParties : collectEphemeralShares(r, k)
  \/ \E r \in Runs, t \in ThresholdInputs : MPCService_constructEphemeralKeypair(r, t)
  \/ \E r \in Runs : setCoordinatorState(r)
  \/ \E r \in Runs : MPCService_computeLocalSignature(r)
  \/ \E r \in Runs, k \in 0..MaxParties : collectLocalSignatures(r, k)

\* ------------------------------------------------------- dishonest parties
\* What a dishonest party (or the channel the script stands for) alters in the
\* values the script hands over; each alteration is a departure.
Altered(v) == (v + 1) % Q
Fault(kind, party, to) == [kind |-> kind, party |-> party, to |-> to]

\* The party being registered opens a public key that is not the one its
\* commitment will be made to.
alterPublicKey ==
  /\ env.stage = "register"
  /\ Len(env.partyInits) = env.i + 1
  /\ dev < MaxDeviations
  /\ LET init == env.partyInits[env.i + 1]
     IN  /\ env' = [env EXCEPT !.partyInits[env.i + 1].publicKey = Altered(init.publicKey),
                               !.faults = env.faults \cup {Fault("publicKey", init.partyId, -1)}]
         /\ last' = Call("alterPublicKey", [partyId |-> init.partyId], Ok(<< >>))
  /\ dev' = dev + 1
  /\ UNCHANGED <<coord, svc, core, sign>>

\* The share the j-th distributing party addresses to the party of protocol
\* index c - 1 is altered on its way to the coordinator.
alterShare(j, c) ==
  /\ env.stage = "distribute"
  /\ Len(env.partyShares) = Len(env.allPartyIds)
  /\ j \in DOMAIN env.partyShares
  /\ c \in DOMAIN env.partyShares[j].secretShares
  /\ dev < MaxDeviations
  /\ env' = [env EXCEPT !.partyShares[j].secretShares[c] =
                          Altered(env.partyShares[j].secretShares[c]),
                        !.faults = env.faults
                                     \cup {Fault("share", env.partyShares[j].partyId, c - 1)}]
  /\ last' = Call("alterShare", [partyId |-> env.partyShares[j].partyId, to |-> c - 1], Ok(<< >>))
  /\ dev' = dev + 1
  /\ UNCHANGED <<coord, svc, core, sign>>

\* The j-th party reports a group public key Y that is not the one it computed.
alterSharedKey(j) ==
  /\ env.stage = "construct"
  /\ Len(env.partySharedKeys) = Len(env.allPartyIds)
  /\ j \in DOMAIN env.partySharedKeys
  /\ dev < MaxDeviations
  /\ env' = [env EXCEPT !.partySharedKeys[j].sharedKey.y =
                          Altered(env.partySharedKeys[j].sharedKey.y),
                        !.faults = env.faults
                                     \cup {Fault("sharedKey", env.partySharedKeys[j].partyId, -1)}]
  /\ last' = Call("alterSharedKey", [partyId |-> env.partySharedKeys[j].partyId], Ok(<< >>))
  /\ dev' = dev + 1
  /\ UNCHANGED <<coord, svc, core, sign>>

\* The j-th signer of session r reports a challenge k that is not the one its
\* local signature was computed with.
alterLocalSig(r, j) ==
  /\ AtStage(r, "localSig")
  /\ Len(sign[r].partyLocalSigs) = Len(sign[r].signingParties)
  /\ j \in DOMAIN sign[r].partyLocalSigs
  /\ dev < MaxDeviations
  /\ sign' = [sign EXCEPT ![r].partyLocalSigs[j].localSig.k =
                            Altered(sign[r].partyLocalSigs[j].localSig.k)]
  /\ env' = [env EXCEPT !.faults = env.faults
                          \cup {Fault("localSig", sign[r].partyLocalSigs[j].partyId, -1)}]
  /\ last' = Call("alterLocalSig", [run |-> r, partyId |-> sign[r].partyLocalSigs[j].partyId],
                  Ok(<< >>))
  /\ dev' = dev + 1
  /\ UNCHANGED <<coord, svc, core>>

FaultNext ==
  \/ alterPublicKey
  \/ \E j \in 1..MaxParties, c \in 1..MaxParties : alterShare(j, c)
  \/ \E j \in 1..MaxParties : alterSharedKey(j)
  \/ \E r \in Runs, j \in 1..MaxParties : alterLocalSig(r, j)

KeyGenNext ==
  \/ \E t \in ThresholdInputs, n \in PartyCountInputs : startKeyGeneration(t, n)
  \/ \E pid \in PartyIds : MPCService_register(pid)
  \/ \E k \in 1..MaxParties : registerParty(k)
  \/ \E pid \in PartyIds : MPCService_generateCommitment(pid)
  \/ \E k \in 0..MaxParties : collectCommitments(k)
  \/ \E pid \in PartyIds, t \in ThresholdInputs : MPCService_distributeShares(pid, t)
  \/ \E k \in 0..MaxParties : collectShares(k)
  \/ \E pid \in PartyIds, of \in PartyIds, t \in ThresholdInputs :
       MPCService_constructKeypair(pid, of, t)
  \/ \E k \in 0..MaxParties : collectSharedKeys(k)

\* The operations of the agents that no script calls.
ApiNext ==
  \E pid \in PartyIds, message \in Messages : MPCService_createEphemeralKey(pid, message)

Next == KeyGenNext \/ SigningNext \/ FaultNext \/ ApiNext

Spec == Init /\ [][Next]_vars

\* Two signing sessions driven against one coordinator by scripts that follow
\* the protocol order, their calls interleaved.
ConcInit ==
  /\ coord = CoordInit
  /\ svc = [p \in PartyIds |-> ServiceInit]
  /\ core = [keys |-> << >>, ephKeys |-> {}]
  /\ env = EnvInit(Ascending, 1, TRUE)
  /\ sign = [r \in Runs |-> SignInit]
  /\ last = LastInit
  /\ dev = MaxDeviations

ConcNext == KeyGenNext \/ SigningNext

ConcSpec == ConcInit /\ [][ConcNext]_vars

\* startSigning's signingParties.map(...).sort() on its own: the protocol
\* indices of one or two named parties out of up to MaxRegistered registered
\* ones, in the order the map gives them, then the sort.
IndexLists ==
  {<<a>> : a \in 0..(MaxRegistered - 1)}
    \cup {l \in {<<a, b>> : a \in 0..(MaxRegistered - 1), b \in 0..(MaxRegistered - 1)} :
            l[1] # l[2]}

SortInit ==
  /\ coord = CoordInit
  /\ svc = [p \in PartyIds |-> ServiceInit]
  /\ core = [keys |-> << >>, ephKeys |-> {}]
  /\ env = EnvInit(Ascending, 1, FALSE)
  /\ sign = [r \in Runs |-> SignInit]
  /\ last \in {[LastInit EXCEPT !.args = indices] : indices \in IndexLists}
  /\ dev = 0

signingPartyIndices ==
  /\ last.op = "none"
  /\ last' = Call("signingPartyIndices", last.args, Ok(SortDefault(last.args)))
  /\ UNCHANGED <<coord, svc, core, env, sign, dev>>

SortNext == signingPartyIndices

SortSpec == SortInit /\ [][SortNext]_vars


\* A coordinator with MaxRegistered registered parties on which a script opens
\* a signing session for one or two of them and hands in their ephemeral data,
\* in the order it named them or in the reverse order.  The coordinator's
\* operations read no more of the script's values than that; each value of an
\* entry stands for the party it comes from.
RegisteredParties ==
  [i \in 1..MaxRegistered |->
     [partyId |-> AllIds[i], publicKey |-> LongLivedKey(i).y,
      partyIndex |-> _getPartyIndexFromId(AllIds[i]), protocolIndex |-> i - 1]]
EphDataOf(index) ==
  [partyId |-> AllIds[index + 1], ephR |-> index + 1,
   commitment |-> Commit(index + 1, 0), blindFactor |-> 0]
Reverse(list) == [c \in DOMAIN list |-> list[Len(list) + 1 - c]]

WideInit ==
  /\ coord = [CoordInit EXCEPT
                !.session = Some([threshold |-> 2, totalParties |-> MaxRegistered,
                                  phase |-> "keygen"]),
                !.parties = RegisteredParties]
  /\ svc = [p \in PartyIds |-> ServiceInit]
  /\ core = [keys |-> << >>, ephKeys |-> {}]
  /\ env = [EnvInit(Ascending, 1, FALSE) EXCEPT
              !.stage = "keygenDone", !.threshold = 2, !.totalParties = MaxRegistered,
              !.allPartyIds = IdsOf(RegisteredParties)]
  /\ sign \in {[r \in Runs |->
                  IF r = 1
                  THEN [SignInit EXCEPT
                          !.partyEphData = [c \in DOMAIN indices |-> EphDataOf(indices[c])]]
                  ELSE SignInit] : indices \in IndexLists}
  /\ last = LastInit
  /\ dev = MaxDeviations

WideNext ==
  \/ \E reversed \in BOOLEAN :
       startSigning(1, [type |-> "buffer", data |-> <<1>>],
                    IF reversed THEN Reverse(IdsOf(sign[1].partyEphData))
                    ELSE IdsOf(sign[1].partyEphData))
  \/ \E k \in 1..2 : collectEphemeralKeysAndCommitments(1, k)

WideSpec == WideInit /\ [][WideNext]_vars


\* The message conversion on its own: a message of up to MaxMessageLen bytes
\* given as a Buffer, an array or a string, and the bytes startSigning stores
\* for it and the bytes startEphemeralKeyGeneration hands to the core.
ByteValues == {0, 104, 127}
MessageInputs ==
  {[type |-> type, data |-> data] :
     type \in {"buffer", "array", "string"},
     data \in UNION {[1..n -> ByteValues] : n \in 0..MaxMessageLen}}

MessageInit ==
  /\ coord = CoordInit
  /\ svc = [p \in PartyIds |-> ServiceInit]
  /\ core = [keys |-> << >>, ephKeys |-> {}]
  /\ env = EnvInit(Ascending, 1, FALSE)
  /\ sign = [r \in Runs |-> SignInit]
  /\ last \in {[LastInit EXCEPT !.args = message] : message \in MessageInputs}
  /\ dev = 0

\* startSigning: messageBuffer = normalizeMessage(message).
startSigning_messageBuffer ==
  /\ last.op = "none"
  /\ last' = Call("startSigning_messageBuffer", last.args, Ok(normalizeMessage(last.args)))
  /\ UNCHANGED <<coord, svc, core, env, sign, dev>>

\* startEphemeralKeyGeneration: messageArray = Array.from(normalizeMessage(message)).
startEphemeralKeyGeneration_messageArray ==
  /\ last.op = "none"
  /\ last' = Call("startEphemeralKeyGeneration_messageArray", last.args,
                  Ok(normalizeMessage(last.args)))
  /\ UNCHANGED <<coord, svc, core, env, sign, dev>>

MessageNext == startSigning_messageBuffer \/ startEphemeralKeyGeneration_messageArray

MessageSpec == MessageInit /\ [][MessageNext]_vars

\* A coordinator that has just been constructed, and a script that holds the
\* values the agents of n parties produce in a 2-of-n key generation (their
\* registrations, commitments, shares and shared keys) and hands them to the
\* coordinator's key generation operations without a startKeyGeneration.
HeldIds(order, n) == SubSeq(order, 1, n)
HeldKey(seed, c) == LongLivedKey(seed + c - 1)
HeldRank(ids, c) == Cardinality({h \in DOMAIN ids : IdRank(ids[h]) < IdRank(ids[c])})
HeldInits(ids, seed) ==
  [c \in DOMAIN ids |-> [partyId |-> ids[c], publicKey |-> HeldKey(seed, c).y]]
HeldCommitments(ids, seed) ==
  [c \in DOMAIN ids |->
     [partyId |-> ids[c],
      commitment |-> MPCClient_generateCommitment(HeldKey(seed, c)).commitment,
      blindFactor |-> MPCClient_generateCommitment(HeldKey(seed, c)).blindFactor]]
HeldShares(ids, seed) ==
  LET inits == SortByPartyId(HeldInits(ids, seed))
      commits == SortByPartyId(HeldCommitments(ids, seed))
  IN  [c \in DOMAIN ids |->
         LET res == MPCClient_distributeShares(HeldKey(seed, c), 2, Len(ids),
                      [h \in DOMAIN commits |-> commits[h].blindFactor],
                      [h \in DOMAIN inits |-> inits[h].publicKey],
                      [h \in DOMAIN commits |-> commits[h].commitment])
         IN  [partyId |-> ids[c], vss |-> Val(res.value).vss,
              secretShares |-> Val(res.value).secretShares]]
HeldSharedKeys(ids, seed) ==
  LET inits == SortByPartyId(HeldInits(ids, seed))
      shares == SortByPartyId(HeldShares(ids, seed))
  IN  [c \in DOMAIN ids |->
         [partyId |-> ids[c],
          sharedKey |-> Val(MPCClient_constructKeypair(HeldKey(seed, c), 2, Len(ids),
                              [h \in DOMAIN inits |-> inits[h].publicKey],
                              [h \in DOMAIN shares |-> shares[h].secretShares],
                              [h \in DOMAIN shares |-> shares[h].vss],
                              HeldRank(ids, c)).value)]]

FreshInit ==
  \E order \in Orders, n \in 2..MaxParties, seed \in 1..MaxSeed :
    LET ids == HeldIds(order, n)
    IN  /\ coord = CoordInit
        /\ svc = [p \in PartyIds |->
                    IF \E c \in DOMAIN ids : ids[c] = p
                    THEN [keyId |-> Some(IndexOf(ids, p) + 1),
                          sharedKey |-> Some(HeldSharedKeys(ids, seed)[IndexOf(ids, p) + 1].sharedKey)]
                    ELSE ServiceInit]
        /\ core = [keys |-> [c \in DOMAIN ids |-> HeldKey(seed, c)], ephKeys |-> {}]
        /\ env = [EnvInit(order, seed, FALSE) EXCEPT
                    !.stage = "stopped", !.threshold = 2, !.totalParties = n,
                    !.allPartyIds = ids,
                    !.partyInits = HeldInits(ids, seed),
                    !.partyCommitments = HeldCommitments(ids, seed),
                    !.partyShares = HeldShares(ids, seed),
                    !.partySharedKeys = HeldSharedKeys(ids, seed)]
        /\ sign = [r \in Runs |-> SignInit]
        /\ last = LastInit
        /\ dev = 0

FreshNext ==
  \/ \E k \in 1..MaxParties : registerParty(k)
  \/ \E k \in 0..MaxParties : collectCommitments(k)
  \/ \E k \in 0..MaxParties : collectShares(k)
  \/ \E k \in 0..MaxParties : collectSharedKeys(k)

FreshSpec == FreshInit /\ [][FreshNext]_vars

\* ------------------------------------------------------------------ claims
ProtocolIndexOf(pid) ==
  (CHOOSE h \in DOMAIN coord.parties : coord.parties[h].partyId = pid) - 1
Honest == dev = 0 /\ env.faults = {}
Finished(r) == sign[r].stage \in {"done", "failed"}
SufficientSigners(r) == Len(sign[r].signingParties) >= env.threshold

\* C1: in an honest run with 2 <= t <= n and a signer set of at least t
\* registered parties no call fails, and collectLocalSignatures returns
\* isValid = true.  The run is the integration test's: before the local
\* signatures are asked for, the script has set the coordinator's
\* ephSharedKeys, which no operation of the coordinator sets.
FieldsSetByScript(r) == sign[r].partyLocalSigs # << >> => IsSet(coord.ephSharedKeys)
C1_HonestRunIsValid ==
  (Honest /\ Finished(1) /\ SufficientSigners(1) /\ FieldsSetByScript(1))
    => (sign[1].stage = "done" /\ Val(sign[1].result).isValid)

\* An honest run has ended with a valid signature.
C1_ValidRun == Honest /\ sign[1].stage = "done" /\ Val(sign[1].result).isValid

\* C2: startSigning with fewer than t signer IDs throws a ValidationError and
\* leaves signingSession and signingPartyIndices as they were.
C2_InsufficientSignersRejected ==
  [][(/\ last'.op = "startSigning"
      /\ IsSet(coord.session)
      /\ Len(last'.args.signingParties) < Val(coord.session).threshold)
     => (/\ last'.err = "ValidationError"
         /\ coord'.signingSession = coord.signingSession
         /\ coord'.signingPartyIndices = coord.signingPartyIndices)]_vars

\* A session is being signed, and a call with too few signers was refused.
C2_Witness ==
  /\ last.op = "startSigning"
  /\ last.err = "ValidationError"
  /\ Len(last.args.signingParties) < Val(coord.session).threshold
  /\ IsSet(coord.signingSession)
  /\ IsSet(coord.signingPartyIndices)

\* C3: startKeyGeneration(t, n) succeeds exactly when 2 <= t <= n; otherwise it
\* throws a ValidationError and changes no field of the coordinator.
C3_ThresholdValidated ==
  [][last'.op = "startKeyGeneration"
     => (/\ (last'.err = NoError)
              <=> (2 <= last'.args.threshold
                   /\ last'.args.threshold <= last'.args.totalParties)
         /\ last'.err # NoError => (last'.err = "ValidationError" /\ coord' = coord)
         /\ last'.err = NoError => coord'.session = last'.ret)]_vars

\* A call with t > n was refused while a session with registered parties and
\* collected commitments was in place.
C3_Witness ==
  /\ last.op = "startKeyGeneration"
  /\ last.err = "ValidationError"
  /\ last.args.threshold > last.args.totalParties
  /\ IsSet(coord.session)
  /\ Len(coord.parties) >= 2
  /\ Len(coord.commitments) >= 2

\* C4: the coordinator stores and returns no secret value: no VSS share, no
\* x_i, no nonce prefix, no ephemeral share.
NoShares(matrix) == \A j \in DOMAIN matrix : matrix[j] = << >>
NoSecretKeyPart(sharedKeys) ==
  \A j \in DOMAIN sharedKeys :
    "xI" \notin DOMAIN sharedKeys[j] /\ ~IsSet(sharedKeys[j].prefix)
C4_CoordinatorHoldsNoSecret ==
  /\ NoShares(coord.allSecretShares)
  /\ NoSecretKeyPart(coord.sharedKeys)
  /\ IsSet(coord.allEphSecretShares) => NoShares(Val(coord.allEphSecretShares))
  /\ IsSet(env.shareData)
       => \A c \in DOMAIN Val(env.shareData) : NoShares(Val(env.shareData)[c].allSecretShares)
  /\ IsSet(env.keygenResult) => NoSecretKeyPart(Val(env.keygenResult).sharedKeys)
  /\ \A r \in Runs :
       IsSet(sign[r].ephShareData)
         => \A c \in DOMAIN Val(sign[r].ephShareData) :
              NoShares(Val(sign[r].ephShareData)[c].allEphSecretShares)

\* C5: the packet collectShares returns for party i holds only the shares
\* addressed to party i, one from each distributing party.
C5_PacketHoldsOwnSharesOnly ==
  IsSet(env.shareData)
    => \A c \in DOMAIN Val(env.shareData) :
         LET packet == Val(env.shareData)[c]
         IN  \A j \in DOMAIN packet.allSecretShares :
               \A to \in DOMAIN packet.allSecretShares[j] : to - 1 = packet.partyIndex

\* C6: collectSharedKeys fails and stores no Y when two parties report
\* different Y; it stores Y only when all the reports agree.
ReportsDisagree(payload) ==
  \E a, b \in DOMAIN payload : payload[a].sharedKey.y # payload[b].sharedKey.y
C6_DisagreeingReportsRejected ==
  (last.op = "collectSharedKeys" /\ ReportsDisagree(last.args))
    => (last.err # NoError /\ ~IsSet(coord.aggregatePublicKey))

\* C7: when the share s_{j->i} was altered, constructKeypair at the recipient i
\* (a registered agent given its own packet and the session's threshold) fails
\* with a protocol failure that names party j, and i's sharedKey stays unset.
C7_AlteredShareDetected ==
  \A f \in env.faults :
    (/\ dev = 1
     /\ f.kind = "share"
     /\ last.op = "constructKeypair"
     /\ last.args.partyIndex = f.to
     /\ last.args.packetOf = last.args.partyId
     /\ last.args.threshold = env.threshold
     /\ IsSet(svc[last.args.partyId].keyId))
    => (/\ last.err = "ProtocolFailure"
        /\ last.offender = ProtocolIndexOf(f.party)
        /\ ~IsSet(svc[last.args.partyId].sharedKey))

\* The recipient of an altered share has been asked to construct its key pair.
C7_Witness ==
  /\ dev = 1
  /\ last.op = "constructKeypair"
  /\ \E f \in env.faults :
       /\ f.kind = "share" /\ last.args.partyIndex = f.to
       /\ f.party # last.args.partyId
       /\ last.offender = ProtocolIndexOf(f.party)

\* C8: when party i opens a public key that is not the one it committed to,
\* distributeShares at another party (a registered agent given the session's
\* threshold) fails with a protocol failure that names party i and returns no
\* shares.
C8_WrongOpeningDetected ==
  \A f \in env.faults :
    (/\ dev = 1
     /\ f.kind = "publicKey"
     /\ last.op = "distributeShares"
     /\ last.args.threshold = env.threshold
     /\ IsSet(svc[last.args.partyId].keyId))
    => (/\ last.err = "ProtocolFailure"
        /\ last.offender = ProtocolIndexOf(f.party)
        /\ ~IsSet(last.ret)
        /\ env.partyShares = << >>)

\* A party other than the one that opened a wrong key was asked to distribute.
C8_Witness ==
  /\ dev = 1
  /\ last.op = "distributeShares"
  /\ \E f \in env.faults :
       /\ f.kind = "publicKey" /\ f.party # last.args.partyId
       /\ last.offender = ProtocolIndexOf(f.party)

\* C9: of two signing sessions on one coordinator, with different messages and
\* their rounds interleaved, each ends with a signature valid for its own
\* message.
C9_SessionsIndependent ==
  \A r \in Runs :
    sign[r].stage = "done"
      => (/\ Val(sign[r].result).isValid
          /\ MPCClient_verifySignature(Val(sign[r].result).signature,
               normalizeMessage(sign[r].message), Val(sign[r].result).aggregatePublicKey))

\* C10: a collect call for a round that has been passed (collectCommitments
\* once the shares have been collected) is rejected.
C10_LateCollectRejected ==
  (last.op = "collectCommitments" /\ Len(coord.allVssSchemes) > 0) => last.err # NoError

\* Whether the party IDs of a list are pairwise distinct, and whether a payload
\* holds one contribution of each of the parties expected and of no other.
DistinctIds(list) == \A a, b \in DOMAIN list : a # b => list[a].partyId # list[b].partyId
Complete(payload, ids) ==
  /\ Len(payload) = Len(ids)
  /\ \A c \in DOMAIN ids : \E h \in DOMAIN payload : payload[h].partyId = ids[c]
EntryOf(payload, pid) == payload[CHOOSE h \in DOMAIN payload : payload[h].partyId = pid]

\* C11: a collect call whose payload is not one contribution of each party of
\* the session (a party missing, twice, or not of the session) produces no
\* packets.
C11_CollectNeedsEveryParty ==
  /\ (last.op \in {"collectCommitments", "collectShares", "collectSharedKeys"}
        /\ ~Complete(last.args, IdsOf(coord.parties)))
       => last.err # NoError
  /\ (last.op \in {"collectEphemeralKeysAndCommitments", "collectEphemeralShares",
                    "collectLocalSignatures"}
        /\ IsSet(coord.signingSession)
        /\ ~Complete(last.args.payload, Val(coord.signingSession).signingParties))
       => last.err # NoError

C13_DuplicateIdRejected ==
  (last.op = "registerParty" /\ last.err = NoError)
    => Cardinality({h \in DOMAIN coord.parties :
                      coord.parties[h].partyId = last.args.partyId}) = 1

\* C14: collectCommitments given one triple of each registered party, in any
\* order, returns blindFactors, commitments and publicKeys whose position i
\* holds the values of the party of protocol index i, and parties[i] = i.
C14_CommitDataAligned ==
  (/\ last.op = "collectCommitments"
   /\ last.err = NoError
   /\ DistinctIds(coord.parties)
   /\ Complete(last.args, IdsOf(coord.parties)))
    => \A c \in DOMAIN coord.parties :
         LET party == coord.parties[c]
             given == EntryOf(last.args, party.partyId)
             packet == Val(last.ret)
         IN  /\ party.protocolIndex = c - 1
             /\ packet.blindFactors[c] = given.blindFactor
             /\ packet.commitments[c] = given.commitment
             /\ packet.publicKeys[c] = party.publicKey
             /\ packet.parties[c] = c - 1

\* The commitments of every party were collected from a list that was not in
\* the order of the party IDs.
C14_Witness ==
  /\ last.op = "collectCommitments"
  /\ last.err = NoError
  /\ Len(coord.parties) >= 2
  /\ DistinctIds(coord.parties)
  /\ Complete(last.args, IdsOf(coord.parties))
  /\ last.args[1].partyId # coord.parties[1].partyId

\* C15: the signingPartyIndices startSigning stores and returns are the
\* protocol indices of the named parties in ascending numeric order, whatever
\* the number of registered parties.
C15_IndicesAscending ==
  last.op = "signingPartyIndices"
    => (/\ Len(Val(last.ret)) = Len(last.args)
        /\ \A a, b \in DOMAIN Val(last.ret) : a < b => Val(last.ret)[a] < Val(last.ret)[b])

\* C16: collectLocalSignatures rejects the round and returns no signature when
\* two signers report different challenges k.
ChallengesDisagree(payload) ==
  \E a, b \in DOMAIN payload : payload[a].localSig.k # payload[b].localSig.k
C16_ChallengeMismatchRejected ==
  (last.op = "collectLocalSignatures" /\ ChallengesDisagree(last.args.payload))
    => (last.err # NoError /\ ~IsSet(last.ret))

\* C17: collectLocalSignatures never hands back a signature that does not
\* verify: when the local checks pass and the aggregated (R, s) is not valid
\* for Y and the session's message, the call ends with an error.
C17_InvalidSignatureIsAnError ==
  (last.op = "collectLocalSignatures" /\ last.err = NoError) => Val(last.ret).isValid

\* C18: once an operation has failed a cryptographic check (a protocol
\* failure), the session is over: the round operation called next is refused.
RoundOps ==
  {"collectCommitments", "collectShares", "collectSharedKeys",
   "collectEphemeralKeysAndCommitments", "collectEphemeralShares", "collectLocalSignatures"}
C18_FailureEndsSession ==
  [][(last.err = "ProtocolFailure" /\ last'.op \in RoundOps) => last'.err # NoError]_vars

\* C19: after a successful startKeyGeneration the coordinator holds the new
\* session and nothing else: every other field is empty or unset.
C19_StartClearsEverything ==
  (last.op = "startKeyGeneration" /\ last.err = NoError)
    => coord = [CoordInit EXCEPT !.session = last.ret]

\* C20: startSigning, the ephemeral collect operations and
\* collectLocalSignatures leave the results of the key generation as they
\* were: the session (threshold, total parties), the party list with its
\* protocol indices, the VSS schemes and the aggregate public key.
SigningOps ==
  {"startSigning", "collectEphemeralKeysAndCommitments", "collectEphemeralShares",
   "collectLocalSignatures"}
C20_SigningKeepsKeygenResults ==
  [][last'.op \in SigningOps
     => (/\ coord'.session = coord.session
         /\ coord'.parties = coord.parties
         /\ coord'.allVssSchemes = coord.allVssSchemes
         /\ coord'.aggregatePublicKey = coord.aggregatePublicKey)]_vars

\* A signing session has run to its signature on top of a key generation's
\* results.
C20_Witness ==
  /\ last.op = "collectLocalSignatures"
  /\ last.err = NoError
  /\ IsSet(coord.aggregatePublicKey)
  /\ Len(coord.parties) >= 2
  /\ Len(coord.allVssSchemes) = Len(coord.parties)
  /\ IsSet(coord.allEphVssSchemes)

\* C21: register() on an agent that already holds a key handle fails and
\* leaves the agent's key handle and shared key as they were.
C21_SecondRegisterRejected ==
  [][(last'.op = "register" /\ IsSet(svc[last'.args.partyId].keyId))
     => (last'.err # NoError /\ svc' = svc)]_vars

\* C22: on an agent that holds no key handle (register was not called on it)
\* generateCommitment, distributeShares, constructKeypair, createEphemeralKey
\* and startEphemeralKeyGeneration throw a ServiceError, and neither the agent
\* nor the core's keys change.
NeedKeyOps ==
  {"generateCommitment", "distributeShares", "constructKeypair", "createEphemeralKey",
   "startEphemeralKeyGeneration"}
ArgumentsFormed(call) == call.op = "constructKeypair" => call.args.partyIndex # -1
C22_UnregisteredAgentRefuses ==
  [][(/\ last'.op \in NeedKeyOps
      /\ ArgumentsFormed(last')
      /\ ~IsSet(svc[last'.args.partyId].keyId))
     => (last'.err = "ServiceError" /\ ~IsSet(last'.ret) /\ svc' = svc /\ core' = core)]_vars

\* An agent that never registered was asked for a commitment while the
\* registered parties of a session were committing.
C22_Witness ==
  /\ last.op = "generateCommitment"
  /\ last.err = "ServiceError"
  /\ ~IsSet(svc[last.args.partyId].keyId)
  /\ Len(coord.parties) >= 2
  /\ \E p \in PartyIds : IsSet(svc[p].keyId)

\* C23: an agent accepts createEphemeralKey, startEphemeralKeyGeneration and
\* computeLocalSignature only once its constructKeypair has completed (its
\* sharedKey is set); before that they fail and change nothing.
SigningAgentOps == {"createEphemeralKey", "startEphemeralKeyGeneration", "computeLocalSignature"}
C23_SigningNeedsReadyAgent ==
  [][(last'.op \in SigningAgentOps /\ ~IsSet(svc[last'.args.partyId].sharedKey))
     => (last'.err # NoError /\ svc' = svc /\ core' = core)]_vars

\* C24: once a signing session has given its signature, or a new one has been
\* opened with startSigning, the coordinator holds none of the ephemeral data
\* it collected: R points, commitments, blind factors, VSS schemes, shares.
C24_EphemeralErasedOnClose ==
  (last.op \in {"collectLocalSignatures", "startSigning"} /\ last.err = NoError)
    => (/\ ~IsSet(coord.ephRPoints)
        /\ ~IsSet(coord.ephCommitments)
        /\ ~IsSet(coord.ephBlindFactors)
        /\ ~IsSet(coord.allEphVssSchemes)
        /\ ~IsSet(coord.allEphSecretShares))

RankOf(pid) ==
  Cardinality({h \in DOMAIN coord.parties : IdRank(coord.parties[h].partyId) < IdRank(pid)})
OnePacketEach(packets, ids) ==
  /\ Len(packets) = Len(ids)
  /\ DistinctIds(packets)
  /\ \A c \in DOMAIN ids : \E h \in DOMAIN packets : packets[h].partyId = ids[c]
  /\ \A h \in DOMAIN packets : packets[h].partyIndex = RankOf(packets[h].partyId)
C26_OnePacketPerParty ==
  /\ (last.op = "collectShares" /\ last.err = NoError /\ DistinctIds(coord.parties))
       => OnePacketEach(Val(last.ret), IdsOf(coord.parties))
  /\ (last.op = "collectEphemeralShares" /\ last.err = NoError /\ DistinctIds(coord.parties))
       => OnePacketEach(Val(last.ret), Val(coord.signingSession).signingParties)

\* The ephemeral shares of two signers out of three parties were collected, the
\* first party not among the signers.
C26_Witness ==
  /\ last.op = "collectEphemeralShares"
  /\ last.err = NoError
  /\ Len(coord.parties) = 3
  /\ DistinctIds(coord.parties)
  /\ Len(Val(last.ret)) = 2
  /\ Val(last.ret)[1].partyIndex = 1

\* C27: distributeShares, constructKeypair, distributeEphemeralShares and
\* constructEphemeralKeypair of the client throw a ValidationError for a
\* threshold t < 2, and otherwise work with the polynomial degree t - 1: the
\* VSS scheme made has degree t - 1 and t commitments, and the schemes accepted
\* have t commitments.
ReachedClient(call) ==
  IF call.op = "distributeShares" THEN IsSet(svc[call.args.partyId].keyId)
  ELSE IF call.op = "constructKeypair"
  THEN call.args.partyIndex # -1 /\ IsSet(svc[call.args.partyId].keyId)
  ELSE IF call.op = "constructEphemeralKeypair" THEN call.args.partyIndex # -1
  ELSE call.op = "distributeEphemeralShares"
SchemesHanded(call) ==
  IF call.op = "constructKeypair"
  THEN Val(Lookup(Val(env.shareData), call.args.packetOf)).allVssSchemes
  ELSE Val(Lookup(Val(sign[call.args.run].ephShareData), call.args.partyId)).allEphVssSchemes
C27_ThresholdAdjusted ==
  /\ (ReachedClient(last) /\ last.args.threshold < 2) => last.err = "ValidationError"
  /\ (last.op \in {"distributeShares", "distributeEphemeralShares"} /\ last.err = NoError)
       => (/\ Val(last.ret).vss.threshold = last.args.threshold - 1
           /\ Len(Val(last.ret).vss.commitments) = last.args.threshold)
  /\ (last.op \in {"constructKeypair", "constructEphemeralKeypair"} /\ last.err = NoError)
       => \A j \in DOMAIN SchemesHanded(last) :
            Len(SchemesHanded(last)[j].commitments) = last.args.threshold

\* A registered agent was asked to distribute its shares with threshold 1.
C27_Witness ==
  /\ last.op = "distributeShares"
  /\ last.args.threshold = 1
  /\ last.err = "ValidationError"
  /\ IsSet(svc[last.args.partyId].keyId)
  /\ Len(Val(env.commitData).commitments) >= 2

\* C28: after an honest key generation, for every set X of at least t
\* parties, the Lagrange combination at 0 of the shares x_i (i in X, at the
\* points i + 1) is a, the sum of the parties' secrets a_j, and a * G is the
\* aggregate public key Y.
RECURSIVE Ordered(_)
Ordered(S) ==
  IF S = {} THEN << >>
  ELSE LET m == CHOOSE x \in S : \A y \in S : x <= y
       IN  <<m>> \o Ordered(S \ {m})
ShareOf(i) == Val(svc[coord.parties[i].partyId].sharedKey).xI
Interpolate(X) ==
  SumMod([p \in DOMAIN X |-> ScalarMul(ComputeLagrangeCoeff(X[p], X), ShareOf(X[p]))])
SecretSum == SumMod([j \in DOMAIN coord.parties |-> KeyOf(coord.parties[j].partyId).a])
C28_SharesReconstructSecret ==
  (Honest /\ env.stage = "keygenDone")
    => (/\ BasePointMul(SecretSum) = Val(coord.aggregatePublicKey)
        /\ \A X \in SUBSET DOMAIN coord.parties :
             Cardinality(X) >= env.threshold => Interpolate(Ordered(X)) = SecretSum)

\* An honest 2-of-3 key generation has ended.
C28_Witness ==
  /\ Honest
  /\ env.stage = "keygenDone"
  /\ env.threshold = 2
  /\ Len(coord.parties) = 3
  /\ \A i \in DOMAIN coord.parties : IsSet(svc[coord.parties[i].partyId].sharedKey)

\* C29: in an honest signing run, constructEphemeralKeypair at each signer i
\* succeeds and its rho_i is the sum of the ephemeral shares the signers made
\* for i: of each signer's share list, the entry at i's position among the
\* signers.
C29_EphemeralSharesOfSigners ==
  (Honest /\ last.op = "constructEphemeralKeypair")
    => LET r == last.args.run
           S == Val(sign[r].signingSession).signingParties
           pos == IndexOf(S, ProtocolIndexOf(last.args.partyId)) + 1
       IN  /\ last.err = NoError
           /\ Val(last.ret).rI
                = SumMod([j \in DOMAIN sign[r].partyEphShares |->
                            sign[r].partyEphShares[j].secretShares[pos]])

\* C30: with pairwise distinct party IDs and one entry of each signer handed
\* in, the k-th R point, commitment and blind factor that
\* collectEphemeralKeysAndCommitments returns are those of the party whose
\* protocol index is signingPartyIndices[k], whatever the number of parties.
C30_EntriesFollowSigningIndices ==
  (/\ last.op = "collectEphemeralKeysAndCommitments"
   /\ last.err = NoError
   /\ DistinctIds(coord.parties)
   /\ Complete(last.args.payload, Val(coord.signingSession).signingParties))
    => \A k \in DOMAIN Val(last.ret).signingPartyIndices :
         LET party == coord.parties[Val(last.ret).signingPartyIndices[k] + 1]
             given == EntryOf(last.args.payload, party.partyId)
         IN  /\ Val(last.ret).ephRPoints[k] = given.ephR
             /\ Val(last.ret).ephCommitments[k] = given.commitment
             /\ Val(last.ret).ephBlindFactors[k] = given.blindFactor

\* C31: a script that follows the protocol order with honest inputs and uses
\* only the coordinator's operations (it never writes a field of the
\* coordinator itself) reaches collectLocalSignatures with every field the
\* operation requires: the call does not fail with a StateError.
C31_PublicOperationsSuffice ==
  (/\ Honest
   /\ last.op = "collectLocalSignatures"
   /\ ~sign[last.args.run].injected)
    => last.err # "StateError"

\* C32: after every successful startSigning, signingPartyIndices holds at
\* least t and at most n entries (t and n of the session), each the protocol
\* index of a registered party, and no index twice.
C32_SigningIndicesFormASet ==
  (last.op = "startSigning" /\ last.err = NoError)
    => LET spi == Val(coord.signingPartyIndices)
       IN  /\ Len(spi) >= Val(coord.session).threshold
           /\ Len(spi) <= Val(coord.session).totalParties
           /\ \A c \in DOMAIN spi :
                \E h \in DOMAIN coord.parties : coord.parties[h].protocolIndex = spi[c]
           /\ \A a, b \in DOMAIN spi : a # b => spi[a] # spi[b]

\* C33: as long as no aggregate public key is stored (collectSharedKeys has
\* not completed a key generation), startSigning fails with a StateError.  The
\* calls looked at are those that no other check refuses: at least t signers,
\* each a registered party, none named twice.
WellFormedSigners(ids) ==
  /\ NoRepeats(ids)
  /\ IsSet(coord.session) => Len(ids) >= Val(coord.session).threshold
  /\ \A c \in DOMAIN ids : \E h \in DOMAIN coord.parties : coord.parties[h].partyId = ids[c]
C33_SigningNeedsCompletedKeygen ==
  (/\ last.op = "startSigning"
   /\ ~IsSet(coord.aggregatePublicKey)
   /\ WellFormedSigners(last.args.signingParties))
    => last.err = "StateError"

\* C34: a startSigning that names a party ID that is not registered fails and
\* leaves signingSession and signingPartyIndices as they were.
NamesUnregistered(ids) ==
  \E c \in DOMAIN ids : \A h \in DOMAIN coord.parties : coord.parties[h].partyId # ids[c]
C34_UnknownSignerChangesNothing ==
  [][(last'.op = "startSigning" /\ NamesUnregistered(last'.args.signingParties))
     => (/\ last'.err # NoError
         /\ coord'.signingSession = coord.signingSession
         /\ coord'.signingPartyIndices = coord.signingPartyIndices)]_vars

\* C35: registerParty, collectCommitments, collectShares and collectSharedKeys,
\* called on a coordinator on which no key generation session has been
\* started, fail with a SessionError and change no field of the coordinator.
KeygenCoordinatorOps ==
  {"registerParty", "collectCommitments", "collectShares", "collectSharedKeys"}
C35_NoSessionNoChange ==
  [][(last'.op \in KeygenCoordinatorOps /\ ~IsSet(coord.session))
     => (last'.err = "SessionError" /\ coord' = coord)]_vars

\* C36: in every packet collectCommitments or collectShares returns, shareCount
\* is the session's totalParties and is the length of each per-party list of
\* the packet: publicKeys, blindFactors, commitments and parties, respectively
\* publicKeys, allVssSchemes, allSecretShares and each row of allSecretShares.
AllOfLength(lists, n) == \A h \in DOMAIN lists : Len(lists[h]) = n
C36_ShareCountIsEveryLength ==
  /\ (last.op = "collectCommitments" /\ last.err = NoError)
       => LET packet == Val(last.ret)
          IN  /\ packet.shareCount = Val(coord.session).totalParties
              /\ AllOfLength(<<packet.publicKeys, packet.blindFactors,
                               packet.commitments, packet.parties>>, packet.shareCount)
  /\ (last.op = "collectShares" /\ last.err = NoError)
       => \A h \in DOMAIN Val(last.ret) :
            LET packet == Val(last.ret)[h]
            IN  /\ packet.shareCount = Val(coord.session).totalParties
                /\ AllOfLength(<<packet.publicKeys, packet.allVssSchemes,
                                 packet.allSecretShares>>, packet.shareCount)
                /\ AllOfLength(packet.allSecretShares, packet.shareCount)

\* C37: the index registerParty returns to a party is the protocol index the
\* party has from then on: it is the index the coordinator holds for the party
\* when the call returns, and the registration of a further party (one whose
\* ID is not registered yet) changes the protocol index of no registered party.
C37_ReturnedIndexIsFinal ==
  [][(/\ last'.op = "registerParty"
      /\ last'.err = NoError
      /\ NamesUnregistered(<<last'.args.partyId>>))
     => (/\ \E g \in DOMAIN coord'.parties :
              /\ coord'.parties[g].partyId = last'.args.partyId
              /\ coord'.parties[g].protocolIndex = Val(last'.ret).partyIndex
         /\ \A h \in DOMAIN coord.parties : \A g \in DOMAIN coord'.parties :
              coord'.parties[g].partyId = coord.parties[h].partyId
                => coord'.parties[g].protocolIndex = coord.parties[h].protocolIndex)]_vars

\* C38: for a message given as a Buffer, as an array of bytes or as a string,
\* the empty message included, the bytes the coordinator stores and the bytes
\* the agent hands to the core are the bytes of the message given.
MessageOps == {"startSigning_messageBuffer", "startEphemeralKeyGeneration_messageArray"}
C38_MessageBytesKept ==
  last.op \in MessageOps => Val(last.ret) = last.args.data

\* C39: constructKeypair with the packet of the party of protocol index i works
\* on the n shares allSecretShares[j][i], j = 0..n-1, in the order of their
\* distributors, and on the VSS index i + 1: it succeeds exactly when each of
\* these shares matches its distributor's scheme at i + 1, x_i is then their
\* sum, and otherwise the first distributor whose share does not match is
\* named.  The packets looked at hold n schemes and n rows of n shares.
PacketHanded(call) == Val(Lookup(Val(env.shareData), call.args.packetOf))
FullPacket(pk) ==
  /\ Len(pk.publicKeys) = pk.shareCount
  /\ Len(pk.allVssSchemes) = pk.shareCount
  /\ Len(pk.allSecretShares) = pk.shareCount
  /\ AllOfLength(pk.allSecretShares, pk.shareCount)
SharesFor(pk) == [j \in 1..pk.shareCount |-> pk.allSecretShares[j][pk.partyIndex + 1]]
SharesMatch(pk, threshold) ==
  [j \in 1..pk.shareCount |->
     /\ Len(pk.allVssSchemes[j].commitments) = threshold
     /\ ValidateShare(pk.allVssSchemes[j], SharesFor(pk)[j], pk.partyIndex + 1)]
C39_OwnSharesInDistributorOrder ==
  (/\ last.op = "constructKeypair"
   /\ last.args.partyIndex # -1
   /\ last.args.threshold >= 2
   /\ IsSet(svc[last.args.partyId].keyId)
   /\ FullPacket(PacketHanded(last)))
    => LET pk == PacketHanded(last)
           oks == SharesMatch(pk, last.args.threshold)
       IN  IF FirstFailing(oks) = -1
           THEN last.err = NoError /\ Val(last.ret).xI = SumMod(SharesFor(pk))
           ELSE last.err = "ProtocolFailure" /\ last.offender = FirstFailing(oks)

\* The last of three parties has constructed its key pair from the shares
\* addressed to it, and its share of the key is not the sum of the shares it
\* distributed itself.
C39_Witness ==
  /\ last.op = "constructKeypair"
  /\ last.err = NoError
  /\ last.args.partyIndex = 2
  /\ Len(coord.parties) = 3
  /\ FullPacket(PacketHanded(last))
  /\ Val(last.ret).xI # SumMod(PacketHanded(last).allSecretShares[3])

====
